---- MODULE Spec2Model ----
(***************************************************************************)
(* BeneAI time-series pipeline: Category Mapper (hume_client.py), Interval *)
(* Aggregator (interval_aggregator.py), Speech Mapper (speech_mapper.py),  *)
(* Time-Series Buffer (timeseries_buffer.py), Context Builder              *)
(* (llm_context_builder.py) and the handlers of main.py that drive them.   *)
(*                                                                         *)
(* Units.  Times are integers in centiseconds (1.0 s = 100).  Emotion      *)
(* scores are integers in thousandths (0.40 = 400); weighted category sums *)
(* are in ten-thousandths (weight tenths x score thousandths).  Python     *)
(* floats are modelled by exact rational arithmetic on these integers.     *)
(* An optional value (Python None or a value) is <<>> or <<v>>.            *)
(***************************************************************************)
EXTENDS Integers, Sequences, FiniteSets, TLC

VARIABLES
    agg,      \* the session's IntervalAggregator
    sm,       \* the session's SpeechMapper
    buf,      \* the session's TimeSeriesBuffer
    now,      \* the wall clock time.time(), centiseconds
    last,     \* the last operation performed: its name, arguments and result
    emitted,  \* the intervals returned by get_interval so far, in order
    active_connections,  \* manager.active_connections: client id -> components
    tasks,    \* the handler coroutines in flight, each with its position
    hume_client,   \* the module global _hume_client of hume_client.py
    advice_cache   \* the module global advice_cache of cache.py

vars == <<agg, sm, buf, now, last, emitted, active_connections, tasks,
          hume_client, advice_cache>>

\* ------------------------------------------------------------------ helpers

None == <<>>
Some(x) == <<x>>
IsNone(o) == o = <<>>
Val(o) == o[1]

Range(s) == {s[i] : i \in 1..Len(s)}

RECURSIVE SumSeq(_)
SumSeq(s) == IF s = <<>> THEN 0 ELSE s[1] + SumSeq(Tail(s))

RECURSIVE FilterSeq(_, _)
\* the subsequence of s whose elements are in the set keep
FilterSeq(s, keep) ==
    IF s = <<>> THEN <<>>
    ELSE IF s[1] \in keep THEN <<s[1]>> \o FilterSeq(Tail(s), keep)
    ELSE FilterSeq(Tail(s), keep)

LastN(s, n) == IF Len(s) <= n THEN s ELSE SubSeq(s, Len(s) - n + 1, Len(s))

\* ------------------------------------------------- program constants (main.py)

interval_duration == 100
window_size == 4
update_interval == 400
silence_threshold == 99

\* settings.cache_ttl_seconds, in centiseconds, and settings.cache_max_size
cache_ttl_seconds == 30000
cache_max_size == 1000

\* AdviceCache(): the dictionary key -> [advice, timestamp], empty
NewAdviceCache ==
    [cache |-> <<>>, enabled |-> TRUE, ttl |-> cache_ttl_seconds,
     max_size |-> cache_max_size]

\* ------------------------------------------------------------ TimeSeriesBuffer

NewTimeSeriesBuffer(ws, ui) ==
    [window_size |-> ws, update_interval |-> ui,
     intervals |-> <<>>,
     last_llm_update |-> None, session_start |-> None,
     total_intervals |-> 0, llm_updates_sent |-> 0]

\* mutant: a deque without maxlen
DequeAppend_unbounded(q, x, maxlen) == Append(q, x)

\* collections.deque(maxlen=n).append
DequeAppend(q, x, maxlen) ==
    IF Len(q) >= maxlen THEN Tail(q) \o <<x>> ELSE Append(q, x)

\* mutant: only the most recent interval is examined for emotion_shift
has_significant_shift_last_only(b) ==
    IF Len(b.intervals) < 2 THEN FALSE
    ELSE b.intervals[Len(b.intervals)].flags.emotion_shift

has_significant_shift(b) ==
    IF Len(b.intervals) < 2 THEN FALSE
    ELSE \E i \in 1..Len(LastN(b.intervals, 2)) :
            LastN(b.intervals, 2)[i].flags.emotion_shift

\* mutant: only the most recent interval is examined
has_state_transition_last_only(b) ==
    IF Len(b.intervals) < 2 THEN FALSE
    ELSE b.intervals[Len(b.intervals)].flags.state_transition

has_state_transition(b) ==
    IF Len(b.intervals) < 2 THEN FALSE
    ELSE \E i \in 1..Len(LastN(b.intervals, 2)) :
            LastN(b.intervals, 2)[i].flags.state_transition

\* mutant: the fullness test is off by one, so a buffer of exactly
\* window_size intervals still counts as partially filled
should_trigger_llm_update_off_by_one(b, current_time) ==
    IF Len(b.intervals) <= b.window_size
    THEN [buf |-> b, ret |-> FALSE]
    ELSE [buf |-> [b EXCEPT !.last_llm_update = Some(current_time)], ret |-> TRUE]

\* mutant: a trigger caused by a state transition leaves the clock alone
should_trigger_llm_update_stale_clock(b, current_time) ==
    IF Len(b.intervals) < b.window_size
    THEN [buf |-> b, ret |-> FALSE]
    ELSE IF IsNone(b.last_llm_update)
    THEN [buf |-> [b EXCEPT !.last_llm_update = Some(current_time)], ret |-> TRUE]
    ELSE IF current_time - Val(b.last_llm_update) >= b.update_interval
    THEN [buf |-> [b EXCEPT !.last_llm_update = Some(current_time)], ret |-> TRUE]
    ELSE IF has_significant_shift(b)
    THEN [buf |-> [b EXCEPT !.last_llm_update = Some(current_time)], ret |-> TRUE]
    ELSE IF has_state_transition(b)
    THEN [buf |-> b, ret |-> TRUE]
    ELSE [buf |-> b, ret |-> FALSE]

\* mutant: after the first trigger only the event flags trigger, the elapsed
\* period never does
should_trigger_llm_update_events_only(b, current_time) ==
    IF Len(b.intervals) < b.window_size
    THEN [buf |-> b, ret |-> FALSE]
    ELSE IF IsNone(b.last_llm_update)
    THEN [buf |-> [b EXCEPT !.last_llm_update = Some(current_time)], ret |-> TRUE]
    ELSE IF has_significant_shift(b)
    THEN [buf |-> [b EXCEPT !.last_llm_update = Some(current_time)], ret |-> TRUE]
    ELSE IF has_state_transition(b)
    THEN [buf |-> [b EXCEPT !.last_llm_update = Some(current_time)], ret |-> TRUE]
    ELSE [buf |-> b, ret |-> FALSE]

\* returns the buffer after the call and the returned boolean
should_trigger_llm_update(b, current_time) ==
    IF Len(b.intervals) < b.window_size
    THEN [buf |-> b, ret |-> FALSE]
    ELSE IF IsNone(b.last_llm_update)
    THEN [buf |-> [b EXCEPT !.last_llm_update = Some(current_time)], ret |-> TRUE]
    ELSE IF current_time - Val(b.last_llm_update) >= b.update_interval
    THEN [buf |-> [b EXCEPT !.last_llm_update = Some(current_time)], ret |-> TRUE]
    ELSE IF has_significant_shift(b)
    THEN [buf |-> [b EXCEPT !.last_llm_update = Some(current_time)], ret |-> TRUE]
    ELSE IF has_state_transition(b)
    THEN [buf |-> [b EXCEPT !.last_llm_update = Some(current_time)], ret |-> TRUE]
    ELSE [buf |-> b, ret |-> FALSE]

add_interval(b, interval_data, current_time) ==
    LET b1 == [b EXCEPT !.session_start =
                            IF IsNone(@) THEN Some(current_time) ELSE @]
        b2 == [b1 EXCEPT !.intervals = DequeAppend(@, interval_data, b.window_size),
                         !.total_intervals = @ + 1]
    IN  should_trigger_llm_update(b2, current_time)

increment_llm_updates(b) == [b EXCEPT !.llm_updates_sent = @ + 1]

reset_buffer(b) == [b EXCEPT !.intervals = <<>>]

buffer_reset_session(b) ==
    [b EXCEPT !.intervals = <<>>, !.last_llm_update = None,
              !.session_start = None, !.total_intervals = 0,
              !.llm_updates_sent = 0]

\* ------------------------------------------------ Category Mapper (HumeClient)

\* the order in which the classifier lists its emotions (the dict order of
\* emotions_dict): alphabetical.  "Tiredness" stands for the emotions that
\* belong to no category.
EmotionOrder ==
    <<"Admiration", "Aesthetic Appreciation", "Amusement", "Anger",
      "Anxiety (negative)", "Awkwardness", "Boredom", "Calmness",
      "Concentration", "Confusion", "Contemplation", "Contempt", "Curiosity",
      "Disapproval", "Disgust", "Distress", "Doubt", "Ecstasy", "Entrancement",
      "Excitement", "Fear", "Interest", "Joy", "Pain", "Realization",
      "Sadness", "Satisfaction", "Surprise (positive)", "Tiredness", "Triumph">>

\* the keys of the states dictionary, in insertion order
StateOrder ==
    <<"closed-off", "baseline", "curious", "amused", "enthusiastic", "thinking">>

\* the weighted sums of _map_to_investor_state: <<emotion, weight in tenths>>
StateWeights(state) ==
    CASE state = "closed-off" ->
            <<<<"Anger", 7>>, <<"Fear", 6>>, <<"Anxiety (negative)", 6>>,
              <<"Distress", 5>>, <<"Contempt", 5>>, <<"Disgust", 4>>,
              <<"Boredom", 6>>, <<"Awkwardness", 7>>, <<"Disapproval", 3>>,
              <<"Sadness", 3>>, <<"Doubt", 3>>, <<"Pain", 2>>>>
      [] state = "baseline" ->
            <<<<"Calmness", 8>>, <<"Aesthetic Appreciation", 3>>,
              <<"Contemplation", 2>>>>
      [] state = "curious" ->
            <<<<"Interest", 9>>, <<"Curiosity", 9>>, <<"Concentration", 5>>,
              <<"Realization", 5>>, <<"Surprise (positive)", 4>>>>
      [] state = "amused" ->
            <<<<"Amusement", 9>>, <<"Joy", 5>>, <<"Satisfaction", 6>>,
              <<"Entrancement", 4>>>>
      [] state = "enthusiastic" ->
            <<<<"Joy", 9>>, <<"Excitement", 9>>, <<"Admiration", 7>>,
              <<"Triumph", 5>>, <<"Ecstasy", 6>>, <<"Surprise (positive)", 5>>>>
      [] state = "thinking" ->
            <<<<"Contemplation", 8>>, <<"Concentration", 7>>,
              <<"Confusion", 4>>, <<"Realization", 3>>>>

\* state_emotions of _get_primary_emotion_for_state; .get(state, []) otherwise
state_emotions(state) ==
    CASE state = "closed-off" ->
            {"Anger", "Fear", "Anxiety (negative)", "Distress", "Contempt",
             "Disgust", "Boredom", "Awkwardness", "Disapproval", "Sadness",
             "Doubt", "Pain"}
      [] state = "baseline" ->
            {"Calmness", "Aesthetic Appreciation", "Contemplation"}
      [] state = "curious" ->
            {"Interest", "Curiosity", "Concentration", "Realization",
             "Surprise (positive)"}
      [] state = "amused" ->
            {"Amusement", "Joy", "Satisfaction", "Entrancement"}
      [] state = "enthusiastic" ->
            {"Joy", "Excitement", "Admiration", "Triumph", "Ecstasy",
             "Surprise (positive)"}
      [] state = "thinking" ->
            {"Contemplation", "Concentration", "Confusion", "Realization"}
      [] OTHER -> {}

\* emotions.get(name, 0)
GetScore(emotions, name) ==
    IF name \in DOMAIN emotions THEN emotions[name] ELSE 0

\* emotions.items(): the <<name, score>> pairs in dict order
Items(emotions) ==
    LET names == FilterSeq(EmotionOrder, DOMAIN emotions)
    IN  [i \in 1..Len(names) |-> <<names[i], emotions[names[i]]>>]

\* max(items, key=lambda x: x[1]): the first pair with the largest score
MaxItem(items) ==
    items[CHOOSE i \in 1..Len(items) :
            /\ \A j \in 1..Len(items) : items[j][2] <= items[i][2]
            /\ \A j \in 1..(i - 1) : items[j][2] < items[i][2]]

\* one weighted sum, in ten-thousandths
StateScore(emotions, state) ==
    LET w == StateWeights(state)
    IN  SumSeq([i \in 1..Len(w) |-> GetScore(emotions, w[i][1]) * w[i][2]])

\* the confidence floor 0.10, in ten-thousandths
StateThreshold == 1000

\* mutant: a weighted sum equal to the floor wins
map_to_investor_state_inclusive_floor(emotions) ==
    LET states == [i \in 1..Len(StateOrder) |->
                      <<StateOrder[i], StateScore(emotions, StateOrder[i])>>]
        dominant_state == MaxItem(states)
    IN  IF dominant_state[2] >= StateThreshold
        THEN dominant_state[1]
        ELSE "baseline"

map_to_investor_state(emotions) ==
    LET states == [i \in 1..Len(StateOrder) |->
                      <<StateOrder[i], StateScore(emotions, StateOrder[i])>>]
        dominant_state == MaxItem(states)
    IN  IF dominant_state[2] > StateThreshold
        THEN dominant_state[1]
        ELSE "baseline"

\* max() of an empty sequence raises ValueError
MaxOrRaise(items) ==
    IF items = <<>> THEN [raised |-> TRUE]
    ELSE [raised |-> FALSE, name |-> MaxItem(items)[1],
          score |-> MaxItem(items)[2]]

\* mutant: the global arg-max, whatever the state
get_primary_emotion_for_state_global(emotions, state) ==
    MaxOrRaise(Items(emotions))

get_primary_emotion_for_state(emotions, state) ==
    LET relevant_emotions == state_emotions(state)
        filtered_emotions ==
            [n \in DOMAIN emotions \cap relevant_emotions |-> emotions[n]]
    IN  IF relevant_emotions = {}
        THEN MaxOrRaise(Items(emotions))
        ELSE IF DOMAIN filtered_emotions # {}
        THEN MaxOrRaise(Items(filtered_emotions))
        ELSE MaxOrRaise(Items(emotions))

RECURSIVE InsertByScoreDesc(_, _)
\* x put behind every pair whose score is not smaller (a stable sort step)
InsertByScoreDesc(sorted, x) ==
    IF sorted = <<>> THEN <<x>>
    ELSE IF sorted[1][2] >= x[2]
    THEN <<sorted[1]>> \o InsertByScoreDesc(Tail(sorted), x)
    ELSE <<x>> \o sorted

RECURSIVE sorted_by_score_desc(_)
\* sorted(items, key=lambda x: x[1], reverse=True)
sorted_by_score_desc(s) ==
    IF s = <<>> THEN <<>>
    ELSE InsertByScoreDesc(sorted_by_score_desc(SubSeq(s, 1, Len(s) - 1)),
                           s[Len(s)])

FirstN(s, n) == IF Len(s) <= n THEN s ELSE SubSeq(s, 1, n)

\* analyze_face from the first face's emotions on: the result dictionary, or
\* None when the mapping raises (the except clause returns None)
analyze_face(emotions_dict) ==
    LET investor_state == map_to_investor_state(emotions_dict)
        primary_emotion ==
            get_primary_emotion_for_state(emotions_dict, investor_state)
        top_emotions == FirstN(sorted_by_score_desc(Items(emotions_dict)), 5)
    IN  IF primary_emotion.raised THEN None
        ELSE Some([primary_emotion |-> primary_emotion.name,
                   confidence |-> primary_emotion.score,
                   all_emotions |-> emotions_dict,
                   investor_state |-> investor_state,
                   top_emotions |-> top_emotions])

\* ---------------------------------------------------------- IntervalAggregator

NewIntervalAggregator(duration) ==
    [interval_duration |-> duration,
     current_interval_start |-> None,
     current_interval_frames |-> <<>>,
     current_interval_states |-> <<>>,
     previous_top_emotions |-> None,
     previous_state |-> None,
     interval_count |-> 0]

\* round() of the rational n/d (d > 0, n >= 0) to an integer, ties to even
RoundHalfEven(n, d) ==
    LET q == n \div d
        r == n % d
    IN  IF 2 * r < d THEN q
        ELSE IF 2 * r > d THEN q + 1
        ELSE IF q % 2 = 0 THEN q ELSE q + 1

\* mutant: every frame restarts the interval's clock
add_frame_moving_start(a, emotion_data, timestamp, face_detected) ==
    [a EXCEPT
        !.current_interval_start = Some(timestamp),
        !.current_interval_frames =
            Append(@, [timestamp |-> timestamp,
                       emotions |-> emotion_data.all_emotions,
                       state |-> emotion_data.investor_state,
                       face_detected |-> face_detected,
                       confidence |-> emotion_data.confidence]),
        !.current_interval_states =
            IF emotion_data.investor_state # ""
            THEN Append(@, emotion_data.investor_state) ELSE @]

add_frame(a, emotion_data, timestamp, face_detected) ==
    [a EXCEPT
        !.current_interval_start = IF IsNone(@) THEN Some(timestamp) ELSE @,
        !.current_interval_frames =
            Append(@, [timestamp |-> timestamp,
                       emotions |-> emotion_data.all_emotions,
                       state |-> emotion_data.investor_state,
                       face_detected |-> face_detected,
                       confidence |-> emotion_data.confidence]),
        !.current_interval_states =
            IF emotion_data.investor_state # ""
            THEN Append(@, emotion_data.investor_state) ELSE @]

\* mutant: the interval is complete only after more than interval_duration
interval_complete_strict(a, current_time) ==
    IF IsNone(a.current_interval_start) THEN FALSE
    ELSE current_time - Val(a.current_interval_start) > a.interval_duration

interval_complete(a, current_time) ==
    IF IsNone(a.current_interval_start) THEN FALSE
    ELSE current_time - Val(a.current_interval_start) >= a.interval_duration

RECURSIVE AppendNew(_, _)
\* the keys of names not yet in seq, appended to it in order
AppendNew(seq, names) ==
    IF names = <<>> THEN seq
    ELSE AppendNew(IF names[1] \in Range(seq) THEN seq
                   ELSE Append(seq, names[1]), Tail(names))

RECURSIVE FirstSeenNames(_)
\* the keys of emotion_sums in insertion order
FirstSeenNames(frames) ==
    IF frames = <<>> THEN <<>>
    ELSE AppendNew(FirstSeenNames(SubSeq(frames, 1, Len(frames) - 1)),
                   FilterSeq(EmotionOrder,
                             DOMAIN frames[Len(frames)].emotions))

\* emotion_sums[name] / emotion_counts[name] as the pair <<sum, count>>
emotion_average(frames, name) ==
    LET has == SelectSeq(frames, LAMBDA f : name \in DOMAIN f.emotions)
    IN  <<SumSeq([i \in 1..Len(has) |-> has[i].emotions[name]]), Len(has)>>

\* emotion_averages.items() over the frames with a detected face
emotion_averages(frames) ==
    LET detected == SelectSeq(frames, LAMBDA f : f.face_detected)
        names == FirstSeenNames(detected)
    IN  [i \in 1..Len(names) |->
            <<names[i], emotion_average(detected, names[i])>>]

RECURSIVE InsertByAvgDesc(_, _)
\* x put behind every pair whose average is not smaller (a stable sort step)
InsertByAvgDesc(sorted, x) ==
    IF sorted = <<>> THEN <<x>>
    ELSE IF sorted[1][2][1] * x[2][2] >= x[2][1] * sorted[1][2][2]
    THEN <<sorted[1]>> \o InsertByAvgDesc(Tail(sorted), x)
    ELSE <<x>> \o sorted

RECURSIVE sorted_by_avg_desc(_)
\* sorted(current_averages.items(), key=lambda x: x[1], reverse=True)
sorted_by_avg_desc(s) ==
    IF s = <<>> THEN <<>>
    ELSE InsertByAvgDesc(sorted_by_avg_desc(SubSeq(s, 1, Len(s) - 1)),
                         s[Len(s)])

\* the threshold 0.05 of _calculate_trend, in thousandths
TrendThreshold == 50

\* mutant: the comparison includes the threshold itself
calculate_trend_inclusive(a, emotion_name, current_score) ==
    IF IsNone(a.previous_top_emotions) THEN "stable"
    ELSE LET prev == SelectSeq(Val(a.previous_top_emotions),
                               LAMBDA e : e.name = emotion_name)
         IN  IF prev = <<>> THEN "new"
             ELSE LET n == current_score[1] - prev[1].avg_score * current_score[2]
                  IN  IF n >= TrendThreshold * current_score[2]
                      THEN "increasing"
                      ELSE IF n <= -TrendThreshold * current_score[2]
                      THEN "decreasing"
                      ELSE "stable"

\* mutant: without a previous interval every category is "new"
calculate_trend_first_new(a, emotion_name, current_score) ==
    LET previous == IF IsNone(a.previous_top_emotions) THEN <<>>
                    ELSE Val(a.previous_top_emotions)
        prev == SelectSeq(previous, LAMBDA e : e.name = emotion_name)
    IN  IF prev = <<>> THEN "new"
        ELSE LET n == current_score[1] - prev[1].avg_score * current_score[2]
             IN  IF n > TrendThreshold * current_score[2]
                 THEN "increasing"
                 ELSE IF n < -TrendThreshold * current_score[2]
                 THEN "decreasing"
                 ELSE "stable"

\* current_score is the window's average <<sum, count>>; the previous score is
\* the avg_score (rounded) of the previous interval's entry of the same name
calculate_trend(a, emotion_name, current_score) ==
    IF IsNone(a.previous_top_emotions) THEN "stable"
    ELSE LET prev == SelectSeq(Val(a.previous_top_emotions),
                               LAMBDA e : e.name = emotion_name)
         IN  IF prev = <<>> THEN "new"
             ELSE LET n == current_score[1] - prev[1].avg_score * current_score[2]
                  IN  IF n > TrendThreshold * current_score[2]
                      THEN "increasing"
                      ELSE IF n < -TrendThreshold * current_score[2]
                      THEN "decreasing"
                      ELSE "stable"

get_top_emotions_with_trends(a, current_averages, n) ==
    LET sorted_emotions == FirstN(sorted_by_avg_desc(current_averages), n)
    IN  [i \in 1..Len(sorted_emotions) |->
            [name |-> sorted_emotions[i][1],
             avg_score |-> RoundHalfEven(sorted_emotions[i][2][1],
                                         sorted_emotions[i][2][2]),
             trend |-> calculate_trend(a, sorted_emotions[i][1],
                                       sorted_emotions[i][2])]]

\* mutant: among the most frequent states the one seen last wins
get_dominant_state_last_seen(states) ==
    IF states = <<>> THEN "neutral"
    ELSE LET names == AppendNew(<<>>, states)
             state_counts ==
                 [i \in 1..Len(names) |->
                     <<names[Len(names) + 1 - i],
                       Len(SelectSeq(states,
                                     LAMBDA x : x = names[Len(names) + 1 - i]))>>]
         IN  MaxItem(state_counts)[1]

get_dominant_state(states) ==
    IF states = <<>> THEN "neutral"
    ELSE LET names == AppendNew(<<>>, states)
             state_counts ==
                 [i \in 1..Len(names) |->
                     <<names[i],
                       Len(SelectSeq(states, LAMBDA x : x = names[i]))>>]
         IN  MaxItem(state_counts)[1]

\* detected / len(frames) >= 0.8
check_high_confidence(a) ==
    IF a.current_interval_frames = <<>> THEN FALSE
    ELSE 10 * Len(SelectSeq(a.current_interval_frames,
                            LAMBDA f : f.face_detected))
            >= 8 * Len(a.current_interval_frames)

\* both branches of _check_emotion_shift return False
check_emotion_shift(a) ==
    IF IsNone(a.previous_top_emotions) THEN FALSE
    ELSE IF Len(Val(a.previous_top_emotions)) < 3 THEN FALSE
    ELSE FALSE

\* mutant: the state is compared with the default state, not the previous one
check_state_transition_against_default(a, current_state) ==
    IF IsNone(a.previous_state) THEN FALSE
    ELSE current_state # "neutral"

check_state_transition(a, current_state) ==
    IF IsNone(a.previous_state) THEN FALSE
    ELSE current_state # Val(a.previous_state)

generate_flags(a, current_state) ==
    [high_confidence |-> check_high_confidence(a),
     emotion_shift |-> check_emotion_shift(a),
     state_transition |-> check_state_transition(a, current_state),
     silence |-> FALSE]

\* mutant: the start of the closed interval is kept for the next one
reset_interval_keep_start(a) ==
    [a EXCEPT !.current_interval_frames = <<>>,
              !.current_interval_states = <<>>]

reset_interval(a) ==
    [a EXCEPT !.current_interval_start = None,
              !.current_interval_frames = <<>>,
              !.current_interval_states = <<>>]

\* returns the aggregator after the call and the interval dictionary or None.
\* The field "interval" is the pair of the two times formatted with one decimal.
get_interval(a, current_time) ==
    IF a.current_interval_frames = <<>>
    THEN [agg |-> a, interval |-> None]
    ELSE LET start == Val(a.current_interval_start)
             top_emotions ==
                 get_top_emotions_with_trends(
                     a, emotion_averages(a.current_interval_frames), 3)
             investor_state == get_dominant_state(a.current_interval_states)
             flags == generate_flags(a, investor_state)
             interval_data ==
                 [timestamp |-> start + a.interval_duration \div 2,
                  interval_start |-> start,
                  interval_end |-> current_time,
                  interval |-> <<RoundHalfEven(start, 10),
                                 RoundHalfEven(current_time, 10)>>,
                  top_emotions |-> top_emotions,
                  investor_state |-> investor_state,
                  frames_count |-> Len(a.current_interval_frames),
                  faces_detected |->
                      Len(SelectSeq(a.current_interval_frames,
                                    LAMBDA f : f.face_detected)),
                  flags |-> flags,
                  words |-> <<>>,
                  full_text |-> <<>>]
             a1 == [a EXCEPT !.previous_top_emotions = Some(top_emotions),
                             !.previous_state = Some(investor_state)]
         IN  [agg |-> [reset_interval(a1) EXCEPT !.interval_count = @ + 1],
              interval |-> Some(interval_data)]

aggregator_reset_session(a) ==
    [a EXCEPT !.current_interval_start = None,
              !.current_interval_frames = <<>>,
              !.current_interval_states = <<>>,
              !.previous_top_emotions = None,
              !.previous_state = None,
              !.interval_count = 0]

\* ---------------------------------------------------------------- SpeechMapper

NewSpeechMapper(threshold) ==
    [silence_threshold |-> threshold,
     pending_words |-> <<>>,
     last_word_time |-> None,
     total_words_mapped |-> 0,
     total_silence_detected |-> 0]

\* LOOKBACK_BUFFER = 5.0 seconds
LOOKBACK_BUFFER == 500

add_word(m, word, timestamp, confidence) ==
    [m EXCEPT !.pending_words =
                  Append(@, [word |-> word, timestamp |-> timestamp,
                             confidence |-> confidence]),
              !.last_word_time = Some(timestamp)]

RECURSIVE InsertByTimestamp(_, _)
\* w put behind every element whose timestamp is not larger (a stable sort step)
InsertByTimestamp(sorted, w) ==
    IF sorted = <<>> THEN <<w>>
    ELSE IF sorted[1].timestamp <= w.timestamp
    THEN <<sorted[1]>> \o InsertByTimestamp(Tail(sorted), w)
    ELSE <<w>> \o sorted

RECURSIVE sorted_by_timestamp(_)
\* sorted(words, key=lambda x: x["timestamp"])
sorted_by_timestamp(s) ==
    IF s = <<>> THEN <<>>
    ELSE InsertByTimestamp(sorted_by_timestamp(SubSeq(s, 1, Len(s) - 1)),
                           s[Len(s)])

\* mutant: a gap must exceed the threshold to count as silence
is_silence_interval_strict(m, interval_start, interval_end, interval_words) ==
    IF interval_words = <<>> THEN TRUE
    ELSE IF Len(interval_words) > 1
    THEN LET sorted_words == sorted_by_timestamp(interval_words)
         IN  \E i \in 1..(Len(sorted_words) - 1) :
                sorted_words[i + 1].timestamp - sorted_words[i].timestamp
                    > m.silence_threshold
    ELSE FALSE

is_silence_interval(m, interval_start, interval_end, interval_words) ==
    IF interval_words = <<>> THEN TRUE
    ELSE IF Len(interval_words) > 1
    THEN LET sorted_words == sorted_by_timestamp(interval_words)
         IN  \E i \in 1..(Len(sorted_words) - 1) :
                sorted_words[i + 1].timestamp - sorted_words[i].timestamp
                    >= m.silence_threshold
    ELSE FALSE

\* " ".join(w["word"] for w in interval_words): the texts, in list order
JoinWords(interval_words) ==
    [i \in 1..Len(interval_words) |-> interval_words[i].word]

\* mutant: no lookback, only words inside [interval_start, interval_end) match
map_to_interval_no_lookback(m, interval_start, interval_end) ==
    LET Matches(w) == interval_start <= w.timestamp /\ w.timestamp < interval_end
        Later(w) == ~Matches(w) /\ w.timestamp >= interval_end
        interval_words == SelectSeq(m.pending_words, Matches)
        remaining_words == SelectSeq(m.pending_words, Later)
        is_silence == is_silence_interval(m, interval_start, interval_end,
                                          interval_words)
    IN  [sm |-> [m EXCEPT !.pending_words = remaining_words,
                          !.total_words_mapped = @ + Len(interval_words),
                          !.total_silence_detected =
                              IF is_silence THEN @ + 1 ELSE @],
         words |-> interval_words,
         full_text |-> JoinWords(interval_words),
         is_silence |-> is_silence]

\* mutant: the words of the interval stay pending
map_to_interval_keeps_matched(m, interval_start, interval_end) ==
    LET Matches(w) == /\ interval_start - LOOKBACK_BUFFER <= w.timestamp
                      /\ w.timestamp < interval_end
        Later(w) == Matches(w) \/ w.timestamp >= interval_end
        interval_words == SelectSeq(m.pending_words, Matches)
        remaining_words == SelectSeq(m.pending_words, Later)
        is_silence == is_silence_interval(m, interval_start, interval_end,
                                          interval_words)
    IN  [sm |-> [m EXCEPT !.pending_words = remaining_words,
                          !.total_words_mapped = @ + Len(interval_words),
                          !.total_silence_detected =
                              IF is_silence THEN @ + 1 ELSE @],
         words |-> interval_words,
         full_text |-> JoinWords(interval_words),
         is_silence |-> is_silence]

\* returns the mapper after the call and the returned triple
map_to_interval(m, interval_start, interval_end) ==
    LET Matches(w) == /\ interval_start - LOOKBACK_BUFFER <= w.timestamp
                      /\ w.timestamp < interval_end
        Later(w) == ~Matches(w) /\ w.timestamp >= interval_end
        interval_words == SelectSeq(m.pending_words, Matches)
        remaining_words == SelectSeq(m.pending_words, Later)
        is_silence == is_silence_interval(m, interval_start, interval_end,
                                          interval_words)
    IN  [sm |-> [m EXCEPT !.pending_words = remaining_words,
                          !.total_words_mapped = @ + Len(interval_words),
                          !.total_silence_detected =
                              IF is_silence THEN @ + 1 ELSE @],
         words |-> interval_words,
         full_text |-> JoinWords(interval_words),
         is_silence |-> is_silence]

\* sum(w["confidence"] for w in words) / len(words), as the pair <<sum, count>>
avg_confidence(words) ==
    IF words = <<>> THEN <<0, 1>>
    ELSE <<SumSeq([i \in 1..Len(words) |-> words[i].confidence]), Len(words)>>

\* returns the mapper after the call and the interval dictionary updated in place
\* mutant: the merge also moves the interval's timestamp to its end
update_interval_with_speech_restamped(m, interval_data) ==
    LET r == map_to_interval(m, interval_data.interval_start,
                             interval_data.interval_end)
    IN  [sm |-> r.sm,
         interval |->
            [interval_data EXCEPT !.timestamp = interval_data.interval_end,
                                  !.words = r.words,
                                  !.full_text = r.full_text,
                                  !.flags.silence = r.is_silence]
            @@ [speech_stats |-> [word_count |-> Len(r.words),
                                  avg_confidence |-> avg_confidence(r.words),
                                  is_silence |-> r.is_silence]]]

update_interval_with_speech(m, interval_data) ==
    LET r == map_to_interval(m, interval_data.interval_start,
                             interval_data.interval_end)
    IN  [sm |-> r.sm,
         interval |->
            [interval_data EXCEPT !.words = r.words,
                                  !.full_text = r.full_text,
                                  !.flags.silence = r.is_silence]
            @@ [speech_stats |-> [word_count |-> Len(r.words),
                                  avg_confidence |-> avg_confidence(r.words),
                                  is_silence |-> r.is_silence]]]

flush_old_words(m, current_time, max_age) ==
    LET Fresh(w) == w.timestamp >= current_time - max_age
    IN  [m EXCEPT !.pending_words = SelectSeq(@, Fresh)]

mapper_reset_session(m) ==
    [m EXCEPT !.pending_words = <<>>, !.last_word_time = None,
              !.total_words_mapped = 0, !.total_silence_detected = 0]

\* None for an empty buffer, else the list of intervals.  None and the empty
\* list are both <<>> here: `not intervals` is true of both.
get_context(b) == IF b.intervals = <<>> THEN None ELSE b.intervals

\* round(x, 1) of a time in centiseconds, kept in centiseconds
Round1(x) == 10 * RoundHalfEven(x, 10)

get_summary(b) ==
    IF b.intervals = <<>>
    THEN [buffer_size |-> 0, time_span |-> 0, dominant_state |-> "neutral",
          total_words |-> 0, total_frames |-> 0]
    ELSE LET intervals_list == b.intervals
             n == Len(intervals_list)
             time_span == intervals_list[n].interval_end
                              - intervals_list[1].interval_start
         IN  [buffer_size |-> n,
              time_span |-> Round1(time_span),
              dominant_state |->
                  get_dominant_state(
                      [i \in 1..n |-> intervals_list[i].investor_state]),
              total_words |->
                  SumSeq([i \in 1..n |-> Len(intervals_list[i].words)]),
              total_frames |->
                  SumSeq([i \in 1..n |-> intervals_list[i].frames_count]),
              total_intervals_processed |-> b.total_intervals,
              llm_updates_sent |-> b.llm_updates_sent]

RECURSIVE TopEmotionEntries(_)
\* every top_emotions entry of every interval, in buffer order
TopEmotionEntries(intervals_list) ==
    IF intervals_list = <<>> THEN <<>>
    ELSE intervals_list[1].top_emotions \o TopEmotionEntries(Tail(intervals_list))

\* the trend of one emotion_timeline entry: the list of its scores
timeline_trend(scores) ==
    IF Len(scores) < 2 THEN "stable"
    ELSE LET n == Len(scores)
             mid == n \div 2
             first_sum == SumSeq(SubSeq(scores, 1, mid))
             second_sum == SumSeq(SubSeq(scores, mid + 1, n))
             \* second_sum/(n-mid) - first_sum/mid, times mid*(n-mid)
             diff == second_sum * mid - first_sum * (n - mid)
         IN  IF diff > TrendThreshold * mid * (n - mid) THEN "increasing"
             ELSE IF diff < -TrendThreshold * mid * (n - mid) THEN "decreasing"
             ELSE "stable"

\* the dictionary name -> trend
get_emotion_trends(b) ==
    IF Len(b.intervals) < 2 THEN <<>>
    ELSE LET entries == TopEmotionEntries(b.intervals)
             names == {entries[i].name : i \in 1..Len(entries)}
             Scores(name) ==
                 LET of == SelectSeq(entries, LAMBDA e : e.name = name)
                 IN  [i \in 1..Len(of) |-> of[i].avg_score]
         IN  [name \in names |-> timeline_trend(Scores(name))]

\* ------------------------------------------------------------ LLMContextBuilder

\* round(x, 2) of a score in thousandths, kept in thousandths
Round2(x) == 10 * RoundHalfEven(x, 10)

build_interval_summary(interval) ==
    LET top == FirstN(interval.top_emotions, 3)
    IN  [timestamp |-> Round1(interval.timestamp),
         investor_state |-> interval.investor_state,
         emotions |-> [i \in 1..Len(top) |->
                          [name |-> top[i].name,
                           score |-> Round2(top[i].avg_score),
                           trend |-> top[i].trend]],
         speech |-> [text |-> interval.full_text,
                     word_count |-> Len(interval.words),
                     is_silence |-> interval.flags.silence],
         flags |-> [high_confidence |-> interval.flags.high_confidence,
                    emotion_shift |-> interval.flags.emotion_shift,
                    state_transition |-> interval.flags.state_transition]]

RECURSIVE TransitionsFrom(_, _)
\* the loop of _find_state_transitions from index i on
TransitionsFrom(intervals, i) ==
    IF i > Len(intervals) THEN <<>>
    ELSE LET prev_state == intervals[i - 1].investor_state
             curr_state == intervals[i].investor_state
         IN  (IF prev_state # curr_state
              THEN <<[from_state |-> prev_state,
                      to_state |-> curr_state,
                      timestamp |-> intervals[i].timestamp,
                      text_context |-> intervals[i].full_text]>>
              ELSE <<>>)
             \o TransitionsFrom(intervals, i + 1)

\* mutant: the transition carries the text of the interval that was left
RECURSIVE TransitionsFromPrevText(_, _)
TransitionsFromPrevText(intervals, i) ==
    IF i > Len(intervals) THEN <<>>
    ELSE LET prev_state == intervals[i - 1].investor_state
             curr_state == intervals[i].investor_state
         IN  (IF prev_state # curr_state
              THEN <<[from_state |-> prev_state,
                      to_state |-> curr_state,
                      timestamp |-> intervals[i].timestamp,
                      text_context |-> intervals[i - 1].full_text]>>
              ELSE <<>>)
             \o TransitionsFromPrevText(intervals, i + 1)

find_state_transitions_prev_text(intervals) ==
    TransitionsFromPrevText(intervals, 2)

find_state_transitions(intervals) == TransitionsFrom(intervals, 2)

RECURSIVE find_emotion_shifts(_)
find_emotion_shifts(intervals) ==
    IF intervals = <<>> THEN <<>>
    ELSE LET interval == intervals[1]
             shifting_emotions ==
                 SelectSeq(interval.top_emotions,
                           LAMBDA e : e.trend \in {"increasing", "decreasing"})
         IN  (IF interval.flags.emotion_shift /\ shifting_emotions # <<>>
              THEN <<[timestamp |-> interval.timestamp,
                      emotions |->
                          [i \in 1..Len(shifting_emotions) |->
                              [name |-> shifting_emotions[i].name,
                               trend |-> shifting_emotions[i].trend,
                               score |-> Round2(shifting_emotions[i].avg_score)]],
                      text_context |-> interval.full_text]>>
              ELSE <<>>)
             \o find_emotion_shifts(Tail(intervals))

RECURSIVE SilenceScan(_, _, _)
\* the loop of _find_silence_periods: the intervals left, current_silence
\* (None or the open period) and the periods closed so far
SilenceScan(intervals, current_silence, silence_periods) ==
    IF intervals = <<>>
    THEN IF IsNone(current_silence) THEN silence_periods
         ELSE Append(silence_periods, Val(current_silence))
    ELSE LET interval == intervals[1]
         IN  IF interval.flags.silence
             THEN IF IsNone(current_silence)
                  THEN SilenceScan(Tail(intervals),
                           Some([start_timestamp |-> interval.timestamp,
                                 end_timestamp |-> interval.timestamp,
                                 duration |-> 100,
                                 emotion_during_silence |->
                                     interval.investor_state]),
                           silence_periods)
                  ELSE SilenceScan(Tail(intervals),
                           Some([Val(current_silence) EXCEPT
                                    !.end_timestamp = interval.timestamp,
                                    !.duration = @ + 100]),
                           silence_periods)
             ELSE IF IsNone(current_silence)
                  THEN SilenceScan(Tail(intervals), None, silence_periods)
                  ELSE SilenceScan(Tail(intervals), None,
                                   Append(silence_periods, Val(current_silence)))

\* mutant: a period still open at the end of the buffer is not reported
find_silence_periods_drop_open(intervals) ==
    LET all == SilenceScan(intervals, None, <<>>)
    IN  IF intervals # <<>> /\ intervals[Len(intervals)].flags.silence
        THEN SubSeq(all, 1, Len(all) - 1) ELSE all

find_silence_periods(intervals) == SilenceScan(intervals, None, <<>>)

\* state_scores.get(state, 1)
engagement_score(state) ==
    CASE state = "positive" -> 4
      [] state = "receptive" -> 3
      [] state = "evaluative" -> 2
      [] state = "neutral" -> 1
      [] state = "skeptical" -> 0
      [] OTHER -> 1

calculate_engagement_trend(intervals) ==
    IF Len(intervals) < 2 THEN "stable"
    ELSE LET n == Len(intervals)
             mid == n \div 2
             first_sum ==
                 SumSeq([i \in 1..mid |->
                            engagement_score(intervals[i].investor_state)])
             second_sum ==
                 SumSeq([i \in 1..(n - mid) |->
                            engagement_score(intervals[mid + i].investor_state)])
             \* (second_avg - first_avg) * 2 * mid * (n - mid) against 0.5
             diff2 == 2 * (second_sum * mid - first_sum * (n - mid))
         IN  IF diff2 > mid * (n - mid) THEN "increasing"
             ELSE IF diff2 < -(mid * (n - mid)) THEN "decreasing"
             ELSE "stable"

analyze_patterns(intervals) ==
    [state_transitions |-> find_state_transitions(intervals),
     emotion_shifts |-> find_emotion_shifts(intervals),
     silence_periods |-> find_silence_periods(intervals),
     engagement_trend |-> calculate_engagement_trend(intervals)]

\* the ratios are round(count / total, 2), in hundredths
aggregate_flags(intervals) ==
    LET total_intervals == Len(intervals)
        Count(flag) == Len(SelectSeq(intervals, LAMBDA i : i.flags[flag]))
    IN  [high_confidence_ratio |->
             RoundHalfEven(100 * Count("high_confidence"), total_intervals),
         has_emotion_shifts |-> Count("emotion_shift") > 0,
         has_state_transitions |-> Count("state_transition") > 0,
         silence_ratio |->
             RoundHalfEven(100 * Count("silence"), total_intervals)]

build_empty_context ==
    [time_window |-> [duration_seconds |-> 0, interval_count |-> 0,
                      start_time |-> 0, end_time |-> 0],
     intervals |-> <<>>,
     summary |-> [dominant_state |-> "neutral", total_words |-> 0,
                  total_frames |-> 0, emotion_trends |-> <<>>],
     patterns |-> [state_transitions |-> <<>>, emotion_shifts |-> <<>>,
                   silence_periods |-> <<>>, engagement_trend |-> "stable"],
     flags |-> [high_confidence_ratio |-> 0, has_emotion_shifts |-> FALSE,
                has_state_transitions |-> FALSE, silence_ratio |-> 0]]

\* build_context for a non-empty list of intervals
build_nonempty_context(intervals, buffer_summary, emotion_trends) ==
    [time_window |->
         [duration_seconds |-> buffer_summary.time_span,
          interval_count |-> buffer_summary.buffer_size,
          start_time |-> intervals[1].interval_start,
          end_time |-> intervals[Len(intervals)].interval_end],
     intervals |-> [i \in 1..Len(intervals) |->
                       build_interval_summary(intervals[i])],
     summary |-> [dominant_state |-> buffer_summary.dominant_state,
                  total_words |-> buffer_summary.total_words,
                  total_frames |-> buffer_summary.total_frames,
                  emotion_trends |-> emotion_trends],
     patterns |-> analyze_patterns(intervals),
     flags |-> aggregate_flags(intervals)]

\* mutant: no context at all for an empty buffer
build_context_none_when_empty(intervals, buffer_summary, emotion_trends) ==
    IF intervals = <<>> THEN None
    ELSE build_nonempty_context(intervals, buffer_summary, emotion_trends)

\* intervals is None (<<>>) or a list
build_context(intervals, buffer_summary, emotion_trends) ==
    IF intervals = <<>> THEN build_empty_context
    ELSE build_nonempty_context(intervals, buffer_summary, emotion_trends)

\* str.upper() on the state names
Upper(state) ==
    CASE state = "neutral" -> "NEUTRAL"
      [] state = "baseline" -> "BASELINE"
      [] state = "closed-off" -> "CLOSED-OFF"
      [] state = "curious" -> "CURIOUS"
      [] state = "amused" -> "AMUSED"
      [] state = "enthusiastic" -> "ENTHUSIASTIC"
      [] state = "thinking" -> "THINKING"
      [] OTHER -> state

RECURSIVE Flatten(_)
\* the concatenation of a sequence of sequences
Flatten(ss) == IF ss = <<>> THEN <<>> ELSE ss[1] \o Flatten(Tail(ss))

\* the lines of format_for_prompt, each a record; a subscript of a key the
\* context does not hold raises KeyError
format_for_prompt(context) ==
    IF ~({"summary", "patterns", "intervals"} \subseteq DOMAIN context)
    THEN [raised |-> TRUE]
    ELSE IF \/ ~({"dominant_state", "total_words"}
                    \subseteq DOMAIN context.summary)
            \/ ~({"engagement_trend", "state_transitions", "emotion_shifts",
                  "silence_periods"} \subseteq DOMAIN context.patterns)
    THEN [raised |-> TRUE]
    ELSE LET summary == context.summary
             transitions == context.patterns.state_transitions
             shifts == context.patterns.emotion_shifts
             silences == context.patterns.silence_periods
             header ==
                 <<[line |-> "header"],
                   [line |-> "Dominant State",
                    state |-> Upper(summary.dominant_state)],
                   [line |-> "Engagement Trend",
                    trend |-> context.patterns.engagement_trend],
                   [line |-> "Words Spoken", count |-> summary.total_words]>>
             transition_lines ==
                 IF transitions = <<>> THEN <<>>
                 ELSE <<[line |-> "State Transitions:"]>>
                      \o Flatten([i \in 1..Len(transitions) |->
                            <<[line |-> "transition",
                               from_state |-> transitions[i].from_state,
                               to_state |-> transitions[i].to_state,
                               timestamp |-> transitions[i].timestamp]>>
                            \o (IF transitions[i].text_context # <<>>
                                THEN <<[line |-> "Said",
                                        text |-> transitions[i].text_context]>>
                                ELSE <<>>)])
                      \o <<[line |-> ""]>>
             shift_lines ==
                 IF shifts = <<>> THEN <<>>
                 ELSE <<[line |-> "Emotion Shifts:"]>>
                      \o [i \in 1..Len(shifts) |->
                            [line |-> "shift",
                             emotions |->
                                 [j \in 1..Len(shifts[i].emotions) |->
                                     <<shifts[i].emotions[j].name,
                                       shifts[i].emotions[j].trend>>],
                             timestamp |-> shifts[i].timestamp]]
                      \o <<[line |-> ""]>>
             silence_lines ==
                 IF silences = <<>> THEN <<>>
                 ELSE <<[line |-> "Silence Periods:"]>>
                      \o [i \in 1..Len(silences) |->
                            [line |-> "silence",
                             duration |-> silences[i].duration,
                             state |-> silences[i].emotion_during_silence]]
                      \o <<[line |-> ""]>>
             timeline ==
                 <<[line |-> "Interval Timeline:"]>>
                 \o Flatten([i \in 1..Len(context.intervals) |->
                       LET interval == context.intervals[i]
                           two == FirstN(interval.emotions, 2)
                       IN  <<[line |-> "interval",
                              timestamp |-> interval.timestamp,
                              state |-> Upper(interval.investor_state)],
                             [line |-> "Emotions",
                              emotions |-> [j \in 1..Len(two) |->
                                              <<two[j].name, two[j].score>>]],
                             [line |-> "Said",
                              text |-> IF interval.speech.text # <<>>
                                       THEN interval.speech.text
                                       ELSE <<"[silence]">>]>>])
         IN  [raised |-> FALSE,
              lines |-> header \o transition_lines \o shift_lines
                            \o silence_lines \o timeline]

\* ------------------------------------------------- ConnectionManager.connect

\* manager.active_connections with a single connection, whose components
\* are the objects held in agg, sm and buf
OneConnection ==
    [c \in {"c1"} |-> [interval_aggregator |-> 1, speech_mapper |-> 1,
                       timeseries_buffer |-> 1]]

NewAggregator == NewIntervalAggregator(interval_duration)
NewBuffer == NewTimeSeriesBuffer(window_size, update_interval)
NewMapper == NewSpeechMapper(silence_threshold)

\* ======================================================================
\* SpecBuffer: the TimeSeriesBuffer driven directly through its methods,
\* with intervals of arbitrary flags arriving at arbitrary times.
\* ======================================================================

MaxAdds == 5

\* the time between two add_interval calls: one window, or a whole update period
BufSteps == {interval_duration, update_interval}

\* an interval dictionary as get_interval and update_interval_with_speech
\* leave it, with the given fields
SyntheticInterval(start, end, state, top, es, st, sil, words) ==
    [timestamp |-> start + interval_duration \div 2,
     interval_start |-> start, interval_end |-> end,
     interval |-> <<RoundHalfEven(start, 10), RoundHalfEven(end, 10)>>,
     top_emotions |-> top, investor_state |-> state,
     frames_count |-> 1, faces_detected |-> 1,
     flags |-> [high_confidence |-> TRUE, emotion_shift |-> es,
                state_transition |-> st, silence |-> sil],
     words |-> words, full_text |-> JoinWords(words),
     speech_stats |-> [word_count |-> Len(words),
                       avg_confidence |-> avg_confidence(words),
                       is_silence |-> sil]]

BufInit ==
    /\ agg = NewAggregator
    /\ sm = NewMapper
    /\ buf = NewBuffer
    /\ now = 0
    /\ emitted = <<>>
    /\ active_connections = OneConnection
    /\ tasks = {}
    /\ hume_client = None
    /\ advice_cache = NewAdviceCache
    /\ last = [op |-> "init", adds |-> 0, cleared |-> FALSE, total |-> 0,
               added |-> <<>>]

BufAddInterval ==
    \E dt \in BufSteps, es \in BOOLEAN, st \in BOOLEAN :
        /\ last.total < MaxAdds
        /\ LET t == now + dt
               iv == SyntheticInterval(t - interval_duration, t, "baseline",
                                       <<>>, es, st, TRUE, <<>>)
               r == add_interval(buf, iv, t)
           IN  /\ now' = t
               /\ buf' = r.buf
               /\ last' = [op |-> "add_interval", ret |-> r.ret, pre |-> buf,
                           time |-> t, adds |-> last.adds + 1,
                           cleared |-> last.cleared, total |-> last.total + 1,
                           added |-> Append(last.added, iv)]
        /\ UNCHANGED <<hume_client, advice_cache, active_connections, tasks, agg, sm, emitted>>

BufResetSession ==
    /\ last.op = "add_interval"
    /\ buf' = buffer_reset_session(buf)
    /\ last' = [op |-> "reset_session", adds |-> 0, cleared |-> FALSE,
                total |-> last.total, added |-> <<>>]
    /\ UNCHANGED <<hume_client, advice_cache, active_connections, tasks, agg, sm, now, emitted>>

BufResetBuffer ==
    /\ last.op = "add_interval"
    /\ buf' = reset_buffer(buf)
    /\ last' = [op |-> "reset_buffer", adds |-> last.adds, cleared |-> TRUE,
                total |-> last.total, added |-> <<>>]
    /\ UNCHANGED <<hume_client, advice_cache, active_connections, tasks, agg, sm, now, emitted>>

BufNext == BufAddInterval \/ BufResetSession \/ BufResetBuffer

SpecBuffer == BufInit /\ [][BufNext]_vars

\* C1: starting from a fresh or session-reset buffer of capacity N, the first
\* N-1 add_interval calls return false and the N-th returns true, whatever the
\* flags and times of the intervals.
C1_FirstTriggerWhenFull ==
    (last.op = "add_interval" /\ ~last.cleared /\ last.adds <= window_size)
        => (last.ret <=> (last.adds = window_size))

C1_Witness ==
    /\ last.op = "add_interval"
    /\ ~last.cleared
    /\ last.adds = window_size
    /\ last.ret
    /\ last.total > window_size

\* C2: once the buffer is full and a trigger has fired before, add_interval
\* returns true exactly when update_interval has elapsed since the last
\* trigger, or one of the two most recent buffered intervals carries
\* emotion_shift, or one of them carries state_transition.
C2_TriggerPolicy ==
    (/\ last.op = "add_interval"
     /\ Len(buf.intervals) = window_size
     /\ ~IsNone(last.pre.last_llm_update))
        => (last.ret <=>
              \/ last.time - Val(last.pre.last_llm_update) >= update_interval
              \/ buf.intervals[window_size].flags.emotion_shift
              \/ buf.intervals[window_size - 1].flags.emotion_shift
              \/ buf.intervals[window_size].flags.state_transition
              \/ buf.intervals[window_size - 1].flags.state_transition)

\* the 5th call on the capacity-4 buffer, within update_interval of the first
\* trigger and with no flag on the two most recent intervals, returns false
C2_Witness ==
    /\ last.op = "add_interval"
    /\ ~last.cleared
    /\ last.adds = window_size + 1
    /\ last.time - Val(last.pre.last_llm_update) < update_interval
    /\ ~last.ret

\* ======================================================================
\* SpecMapper: the SpeechMapper driven directly through add_word and
\* map_to_interval, with words of arbitrary timestamps in arbitrary order.
\* ======================================================================

MaxWords == 3
MaxMaps == 2

\* the intervals mapped: [10.0, 11.0) and [11.0, 12.0)
MapIntervals == {<<1000, 1100>>, <<1100, 1200>>}

\* word timestamps: before, at and after the lookback limit of [10.0, 11.0)
\* (4.0, 4.99, 5.0, 7.0), close together inside it (10.5, 10.55, 10.56), at
\* its end (11.0), and 0.99 s / 0.98 s after the words at 10.55 / 10.56
WordTimes == {400, 499, 500, 700, 1050, 1055, 1056, 1100, 1154}

MapInit ==
    /\ agg = NewAggregator
    /\ sm = NewMapper
    /\ buf = NewBuffer
    /\ now = 0
    /\ emitted = <<>>
    /\ active_connections = OneConnection
    /\ tasks = {}
    /\ hume_client = None
    /\ advice_cache = NewAdviceCache
    /\ last = [op |-> "init", added |-> 0, maps |-> 0, included |-> <<>>,
               discarded |-> <<>>]

\* add_word: the text of the n-th word added is n, its confidence 1.0.
\* included and discarded list the words map_to_interval has returned and
\* dropped so far
MapAddWord ==
    \E t \in WordTimes :
        /\ last.added < MaxWords
        /\ sm' = add_word(sm, last.added + 1, t, 100)
        /\ last' = [op |-> "add_word", added |-> last.added + 1,
                    maps |-> last.maps, included |-> last.included,
                    discarded |-> last.discarded]
        /\ UNCHANGED <<hume_client, advice_cache, active_connections, tasks, agg, buf, now, emitted>>

MapToInterval ==
    \E iv \in MapIntervals :
        /\ last.maps < MaxMaps
        /\ LET r == map_to_interval(sm, iv[1], iv[2])
           IN  /\ sm' = r.sm
               /\ last' = [op |-> "map_to_interval", added |-> last.added,
                           maps |-> last.maps + 1,
                           included |-> last.included \o r.words,
                           discarded |->
                               last.discarded \o
                               SelectSeq(sm.pending_words,
                                         LAMBDA w :
                                             /\ w \notin Range(r.words)
                                             /\ w \notin
                                                  Range(r.sm.pending_words)),
                           pre |-> sm, interval_start |-> iv[1],
                           interval_end |-> iv[2], words |-> r.words,
                           full_text |-> r.full_text,
                           is_silence |-> r.is_silence]
        /\ UNCHANGED <<hume_client, advice_cache, active_connections, tasks, agg, buf, now, emitted>>

MapNext == MapAddWord \/ MapToInterval

SpecMapper == MapInit /\ [][MapNext]_vars

\* C5: map_to_interval puts every pending word into exactly one group by its
\* timestamp t: returned and removed from pending iff
\* interval_start - 5.0 <= t < interval_end; kept in pending iff
\* t >= interval_end; neither returned nor kept iff t < interval_start - 5.0.
C5_LookbackPartition ==
    last.op = "map_to_interval" =>
        \A w \in Range(last.pre.pending_words) :
            LET returned == w \in Range(last.words)
                kept == w \in Range(sm.pending_words)
            IN  /\ (returned /\ ~kept) <=>
                      (last.interval_start - 500 <= w.timestamp
                          /\ w.timestamp < last.interval_end)
                /\ (kept /\ ~returned) <=> (w.timestamp >= last.interval_end)
                /\ (~returned /\ ~kept) <=>
                      (w.timestamp < last.interval_start - 500)

\* interval [10.0, 11.0): the words at 7.0 and 10.5 are included, the word at
\* 4.0 is discarded
C5_Witness ==
    /\ last.op = "map_to_interval"
    /\ last.interval_start = 1000 /\ last.interval_end = 1100
    /\ {w.timestamp : w \in Range(last.pre.pending_words)} = {400, 700, 1050}
    /\ {w.timestamp : w \in Range(last.words)} = {700, 1050}
    /\ sm.pending_words = <<>>

\* C6: is_silence is true iff no word was included, or two included words
\* that are consecutive in timestamp order are at least silence_threshold apart.
C6_SilenceIffNoWordsOrGap ==
    last.op = "map_to_interval" =>
        (last.is_silence <=>
            \/ last.words = <<>>
            \/ \E a \in Range(last.words), b \in Range(last.words) :
                  /\ a # b
                  /\ b.timestamp - a.timestamp >= silence_threshold
                  /\ ~\E c \in Range(last.words) :
                        /\ a.timestamp < c.timestamp
                        /\ c.timestamp < b.timestamp)

\* three included words, all within 0.1 s of each other: not silent
C6_Witness ==
    /\ last.op = "map_to_interval"
    /\ Len(last.words) = 3
    /\ \A a \in Range(last.words), b \in Range(last.words) :
          b.timestamp - a.timestamp <= 10
    /\ ~last.is_silence

\* ======================================================================
\* SpecClassify: the Category Mapper applied to score maps drawn from a
\* bounded set of keys and scores.
\* ======================================================================

\* one key per category, the two keys shared by two categories, and a key of
\* no category
ClassifyKeys ==
    {"Anger", "Calmness", "Interest", "Confusion", "Joy", "Contemplation",
     "Tiredness"}

\* scores 0.05, 0.25, 0.6 and 0.9
ClassifyScores == {50, 250, 600, 900}

ClassifyInputs ==
    UNION {[S -> ClassifyScores] : S \in SUBSET ClassifyKeys}

ClassifyInit ==
    /\ agg = NewAggregator
    /\ sm = NewMapper
    /\ buf = NewBuffer
    /\ now = 0
    /\ emitted = <<>>
    /\ active_connections = OneConnection
    /\ tasks = {}
    /\ hume_client = None
    /\ advice_cache = NewAdviceCache
    /\ \E e \in ClassifyInputs : last = [op |-> "input", emotions |-> e]

\* the classification of analyze_face (hume_client.py:200-204)
Classify ==
    /\ last.op = "input"
    /\ LET state == map_to_investor_state(last.emotions)
       IN  last' = [op |-> "classify", emotions |-> last.emotions,
                    investor_state |-> state,
                    primary |-> get_primary_emotion_for_state(last.emotions,
                                                              state),
                    result |-> analyze_face(last.emotions)]
    /\ UNCHANGED <<hume_client, advice_cache, active_connections, tasks, agg, sm, buf, now, emitted>>

ClassifyNext == Classify

SpecClassify == ClassifyInit /\ [][ClassifyNext]_vars

\* the keys that carry a weight in a category's weighted sum
CategoryKeys(state) ==
    {StateWeights(state)[i][1] : i \in 1..Len(StateWeights(state))}

\* C8: when the input holds at least one key of the winning category's key
\* subset, the representative emotion is a key of that subset present in the
\* input, with the highest score among them, even when a key outside the
\* subset scores higher.
C8_RepresentativeInCategory ==
    (/\ last.op = "classify"
     /\ DOMAIN last.emotions \cap CategoryKeys(last.investor_state) # {})
        => /\ ~last.primary.raised
           /\ last.primary.name \in CategoryKeys(last.investor_state)
           /\ last.primary.name \in DOMAIN last.emotions
           /\ last.primary.score = last.emotions[last.primary.name]
           /\ \A k \in DOMAIN last.emotions \cap
                          CategoryKeys(last.investor_state) :
                  last.emotions[k] <= last.primary.score

\* {Interest: 0.6, Confusion: 0.9} yields 'curious' with representative Interest
C8_Witness ==
    /\ last.op = "classify"
    /\ last.emotions = [k \in {"Interest", "Confusion"} |->
                           IF k = "Interest" THEN 600 ELSE 900]
    /\ last.investor_state = "curious"
    /\ last.primary.name = "Interest"

\* ======================================================================
\* SpecContext: the LLMContextBuilder applied to the buffer's contents
\* (get_context, get_summary, get_emotion_trends) after any number of
\* add_interval calls, none included.
\* ======================================================================

MaxCtxAdds == 4

CtxStates == {"baseline", "curious", "enthusiastic"}

\* the words of an interval: none, or the word "hello" spoken in it
CtxWords(start) ==
    {<<>>, <<[word |-> "hello", timestamp |-> start + 10, confidence |-> 100]>>}

\* the one top emotion of a synthetic interval: Interest, scored by the state
CtxTop(state) ==
    <<[name |-> "Interest",
       avg_score |-> CASE state = "baseline" -> 400
                       [] state = "curious" -> 500
                       [] OTHER -> 420,
       trend |-> "stable"]>>

CtxInit ==
    /\ agg = NewAggregator
    /\ sm = NewMapper
    /\ buf = NewBuffer
    /\ now = 0
    /\ emitted = <<>>
    /\ active_connections = OneConnection
    /\ tasks = {}
    /\ hume_client = None
    /\ advice_cache = NewAdviceCache
    /\ last = [op |-> "init"]

CtxAddInterval ==
    \E state \in CtxStates, sil \in BOOLEAN, words \in CtxWords(now) :
        /\ buf.total_intervals < MaxCtxAdds
        /\ LET t == now + interval_duration
               st == /\ buf.intervals # <<>>
                     /\ buf.intervals[Len(buf.intervals)].investor_state # state
               iv == SyntheticInterval(now, t, state, CtxTop(state), FALSE, st,
                                       sil, words)
               r == add_interval(buf, iv, t)
           IN  /\ now' = t
               /\ buf' = r.buf
               /\ last' = [op |-> "add_interval", ret |-> r.ret]
        /\ UNCHANGED <<hume_client, advice_cache, active_connections, tasks, agg, sm, emitted>>

\* trigger_llm_update lines 344-355 without the early return on no intervals
CtxBuildContext ==
    /\ last.op # "build_context"
    /\ LET intervals == get_context(buf)
           context == build_context(intervals, get_summary(buf),
                                    get_emotion_trends(buf))
       IN  last' = [op |-> "build_context", intervals |-> intervals,
                    context |-> context,
                    text |-> format_for_prompt(context)]
    /\ UNCHANGED <<hume_client, advice_cache, active_connections, tasks, agg, sm, buf, now, emitted>>

CtxNext == CtxAddInterval \/ CtxBuildContext

SpecContext == CtxInit /\ [][CtxNext]_vars

\* C9: a context built from an empty buffer is a complete Context, never
\* null, with every numeric field zero, every list empty, dominant state
\* neutral and engagement trend stable, and format_for_prompt renders it
\* without raising.
C9_EmptyContextWellFormed ==
    (last.op = "build_context" /\ last.intervals = <<>>) =>
        /\ last.context # None
        /\ DOMAIN last.context =
               {"time_window", "intervals", "summary", "patterns", "flags"}
        /\ last.context.time_window =
               [duration_seconds |-> 0, interval_count |-> 0,
                start_time |-> 0, end_time |-> 0]
        /\ last.context.intervals = <<>>
        /\ last.context.summary.dominant_state = "neutral"
        /\ last.context.summary.total_words = 0
        /\ last.context.summary.total_frames = 0
        /\ DOMAIN last.context.summary.emotion_trends = {}
        /\ last.context.patterns.state_transitions = <<>>
        /\ last.context.patterns.emotion_shifts = <<>>
        /\ last.context.patterns.silence_periods = <<>>
        /\ last.context.patterns.engagement_trend = "stable"
        /\ last.context.flags.high_confidence_ratio = 0
        /\ last.context.flags.silence_ratio = 0
        /\ ~last.context.flags.has_emotion_shifts
        /\ ~last.context.flags.has_state_transitions
        /\ ~last.text.raised
        /\ Len(last.text.lines) > 0

C9_Witness ==
    /\ last.op = "build_context"
    /\ buf.intervals = <<>>
    /\ last.intervals = None
    /\ ~last.text.raised

\* C10: patterns.state_transitions holds exactly one entry per adjacent pair
\* of buffered intervals whose dominant states differ, in interval order, with
\* the pair's from/to states and the transcript text of the interval entered.
C10_StateTransitionsListed ==
    last.op = "build_context" =>
        LET ivs == last.intervals
            T == last.context.patterns.state_transitions
            changes == {i \in 2..Len(ivs) :
                           ivs[i - 1].investor_state # ivs[i].investor_state}
            Nth(k) == CHOOSE i \in changes :
                          Cardinality({j \in changes : j <= i}) = k
        IN  /\ Len(T) = Cardinality(changes)
            /\ \A k \in 1..Len(T) :
                  /\ T[k].from_state = ivs[Nth(k) - 1].investor_state
                  /\ T[k].to_state = ivs[Nth(k)].investor_state
                  /\ T[k].text_context = ivs[Nth(k)].full_text

\* four buffered intervals with one state change, entered while speaking
C10_Witness ==
    /\ last.op = "build_context"
    /\ Len(last.intervals) = window_size
    /\ Cardinality({i \in 2..window_size :
           last.intervals[i - 1].investor_state
               # last.intervals[i].investor_state}) = 1
    /\ Len(last.context.patterns.state_transitions) = 1
    /\ last.context.patterns.state_transitions[1].text_context = <<"hello">>
    /\ last.intervals[1].full_text = <<>>

\* ------------------------------------------------------------------ main.py
\* The live pipeline of one connection: video frames drive the aggregator,
\* a completed interval is enriched with speech and handed to the buffer,
\* and a positive trigger builds the context for the advice call.

\* trigger_llm_update; send_ok is whether the websocket send succeeds
trigger_llm_update(b, send_ok) ==
    LET intervals == get_context(b)
    IN  IF intervals = <<>> THEN b
        ELSE LET context == build_context(intervals, get_summary(b),
                                          get_emotion_trends(b))
                 formatted_context == format_for_prompt(context)
             IN  IF formatted_context.raised \/ ~send_ok THEN b
                 ELSE increment_llm_updates(b)

\* mutant: a close that yields no interval still maps the pending words to
\* the window that just passed
process_completed_interval_maps_on_null(a, m, b, current_time, io_ok, send_ok) ==
    LET g == get_interval(a, current_time)
    IN  IF IsNone(g.interval)
        THEN [agg |-> g.agg,
              sm |-> map_to_interval(m, current_time - a.interval_duration,
                                     current_time).sm,
              buf |-> b, interval |-> None,
              appended |-> FALSE, triggered |-> FALSE]
        ELSE LET u == update_interval_with_speech(m, Val(g.interval))
                 r == add_interval(b, u.interval, current_time)
             IN  [agg |-> g.agg, sm |-> u.sm,
                  buf |-> IF ~io_ok THEN b
                          ELSE IF r.ret THEN trigger_llm_update(r.buf, send_ok)
                          ELSE r.buf,
                  interval |-> Some(u.interval),
                  appended |-> io_ok, triggered |-> io_ok /\ r.ret]

\* process_completed_interval; io_ok is whether sending and logging the
\* interval succeed, send_ok whether the advice message can be sent
process_completed_interval(a, m, b, current_time, io_ok, send_ok) ==
    LET g == get_interval(a, current_time)
    IN  IF IsNone(g.interval)
        THEN [agg |-> g.agg, sm |-> m, buf |-> b, interval |-> None,
              appended |-> FALSE, triggered |-> FALSE]
        ELSE LET u == update_interval_with_speech(m, Val(g.interval))
             IN  IF ~io_ok
                 THEN [agg |-> g.agg, sm |-> u.sm, buf |-> b,
                       interval |-> Some(u.interval),
                       appended |-> FALSE, triggered |-> FALSE]
                 ELSE LET r == add_interval(b, u.interval, current_time)
                      IN  [agg |-> g.agg, sm |-> u.sm,
                           buf |-> IF r.ret
                                   THEN trigger_llm_update(r.buf, send_ok)
                                   ELSE r.buf,
                           interval |-> Some(u.interval),
                           appended |-> TRUE, triggered |-> r.ret]

\* handle_video_frame past the classifier: the frame is added and, when the
\* interval is complete, closed and processed
handle_video_frame(a, m, b, emotion_data, current_time, io_ok, send_ok) ==
    LET a1 == add_frame(a, emotion_data, current_time, TRUE)
    IN  IF interval_complete(a1, current_time)
        THEN process_completed_interval(a1, m, b, current_time, io_ok, send_ok)
             @@ [closed |-> TRUE, pre |-> Some(a1)]
        ELSE [agg |-> a1, sm |-> m, buf |-> b, interval |-> None,
              appended |-> FALSE, triggered |-> FALSE,
              closed |-> FALSE, pre |-> None]

\* bounds of the live pipeline
MaxFrames == 4
MaxSpoken == 1

\* time between two frames: 0.5 s (the front end's 2 FPS) and 1.0 s
FrameSteps == {50, 100}

\* how long before the handler's clock reading a word was spoken
WordLags == {0, 60}

\* classifier outputs: a curious face, the same with more Interest and
\* Confusion, and an enthusiastic face
FaceSamples ==
    {[Calmness |-> 200, Confusion |-> 100, Interest |-> 400, Joy |-> 300],
     [Calmness |-> 100, Confusion |-> 200, Interest |-> 500, Joy |-> 300],
     [Calmness |-> 200, Confusion |-> 100, Interest |-> 420, Joy |-> 600]}

Init ==
    /\ agg = NewAggregator
    /\ sm = NewMapper
    /\ buf = NewBuffer
    /\ now = 1000
    /\ emitted = <<>>
    /\ active_connections = OneConnection
    /\ tasks = {}
    /\ hume_client = None
    /\ advice_cache = NewAdviceCache
    /\ last = [op |-> "connect", frames |-> 0, spoken |-> 0,
               closed |-> FALSE, appended |-> FALSE, pre |-> None]

\* a frame with a detected face
HandleVideoFrame ==
    /\ last.frames < MaxFrames
    /\ UNCHANGED <<hume_client, advice_cache, active_connections, tasks>>
    /\ \E dt \in FrameSteps, e \in FaceSamples, io_ok, send_ok \in BOOLEAN :
          \E emotion_data \in {analyze_face(e)} :
          \E r \in {IF IsNone(emotion_data) THEN None
                    ELSE handle_video_frame(agg, sm, buf, Val(emotion_data),
                                            now + dt, io_ok, send_ok)} :
              /\ ~IsNone(emotion_data)
              /\ now' = now + dt
              /\ agg' = r.agg
              /\ sm' = r.sm
              /\ buf' = r.buf
              /\ emitted' = IF IsNone(r.interval) THEN emitted
                            ELSE Append(emitted, Val(r.interval))
              /\ last' = [op |-> "video_frame", frames |-> last.frames + 1,
                          spoken |-> last.spoken, closed |-> r.closed,
                          appended |-> r.appended, pre |-> r.pre]

\* a frame that never reaches the aggregator: the classifier is unavailable,
\* it returns no data or no face, or the result cannot be sent
HandleVideoFrameDropped ==
    /\ last.frames < MaxFrames
    /\ \E dt \in FrameSteps :
          /\ now' = now + dt
          /\ last' = [op |-> "frame_dropped", frames |-> last.frames + 1,
                      spoken |-> last.spoken, closed |-> FALSE,
                      appended |-> FALSE, pre |-> None]
    /\ UNCHANGED <<hume_client, advice_cache, active_connections, tasks, agg, sm, buf, emitted>>

\* a transcribed chunk of one word
HandleAudioChunk ==
    /\ last.spoken < MaxSpoken
    /\ \E lag \in WordLags :
          sm' = add_word(sm, "hello", now - lag, 90)
    /\ last' = [op |-> "audio_chunk", frames |-> last.frames,
                spoken |-> last.spoken + 1, closed |-> FALSE,
                appended |-> FALSE, pre |-> None]
    /\ UNCHANGED <<hume_client, advice_cache, active_connections, tasks, agg, buf, now, emitted>>

Next == HandleVideoFrame \/ HandleVideoFrameDropped \/ HandleAudioChunk

Spec == Init /\ [][Next]_vars

\* C3: every two successive emitted intervals are contiguous: the end of one
\* is the start of the next
C3_WindowContiguity ==
    \A i \in 1..(Len(emitted) - 1) :
        emitted[i].interval_end = emitted[i + 1].interval_start

\* C4: every emitted interval is exactly interval_duration long
C4_ExactWindowLength ==
    \A i \in 1..Len(emitted) :
        emitted[i].interval_end - emitted[i].interval_start = interval_duration

\* ---------------------------------------------------- aggregator on its own
\* The aggregator as handle_video_frame and process_completed_interval drive
\* it, without the speech mapper and the buffer.

MaxAggFrames == 5

\* time between two frames: as in the pipeline, or none at all (two frames
\* that read the same clock value)
AggSteps == FrameSteps \cup {0}

AggInit ==
    /\ agg = NewAggregator
    /\ sm = NewMapper
    /\ buf = NewBuffer
    /\ now = 1000
    /\ emitted = <<>>
    /\ active_connections = OneConnection
    /\ tasks = {}
    /\ hume_client = None
    /\ advice_cache = NewAdviceCache
    /\ last = [op |-> "connect", frames |-> 0, closed |-> FALSE, pre |-> None]

\* add_frame, then get_interval when interval_complete holds
AggVideoFrame ==
    /\ last.frames < MaxAggFrames
    /\ \E dt \in AggSteps, e \in FaceSamples :
          \E a1 \in {add_frame(agg, Val(analyze_face(e)), now + dt, TRUE)} :
          \E closed \in {interval_complete(a1, now + dt)} :
          \E g \in {IF closed THEN get_interval(a1, now + dt)
                    ELSE [agg |-> a1, interval |-> None]} :
              /\ now' = now + dt
              /\ agg' = g.agg
              /\ emitted' = IF IsNone(g.interval) THEN emitted
                            ELSE Append(emitted, Val(g.interval))
              /\ last' = [op |-> "video_frame", frames |-> last.frames + 1,
                          closed |-> closed,
                          pre |-> IF closed THEN Some(a1) ELSE None]
    /\ UNCHANGED <<hume_client, advice_cache, active_connections, tasks, sm, buf>>

AggNext == AggVideoFrame

SpecAggregator == AggInit /\ [][AggNext]_vars

\* the sum and the number of the scores of one category over the frames
WindowSum(frames, name) ==
    <<SumSeq([i \in 1..Len(frames) |-> GetScore(frames[i].emotions, name)]),
      Len(frames)>>

\* the trend C7 expects of a window average sum/count against the entries of
\* the preceding emitted interval
ExpectedTrend(prev_top, name, sum, count) ==
    LET p == SelectSeq(prev_top, LAMBDA e : e.name = name)
    IN  IF p = <<>> THEN "new"
        ELSE IF sum - p[1].avg_score * count > 50 * count THEN "increasing"
        ELSE IF sum - p[1].avg_score * count < -(50 * count) THEN "decreasing"
        ELSE "stable"

C7_WitnessStable ==
    /\ last.op = "video_frame" /\ last.closed /\ Len(emitted) >= 2
    /\ LET cur == emitted[Len(emitted)].top_emotions
           prev == emitted[Len(emitted) - 1].top_emotions
       IN  /\ \E i \in 1..Len(prev) :
                 prev[i].name = "Interest" /\ prev[i].avg_score = 400
           /\ \E i \in 1..Len(cur) :
                 /\ cur[i].name = "Interest" /\ cur[i].avg_score = 420
                 /\ cur[i].trend = "stable"

\* the maximal runs <<i, j>> of consecutive silent intervals
SilentRuns(intervals) ==
    {r \in (1..Len(intervals)) \X (1..Len(intervals)) :
        /\ r[1] <= r[2]
        /\ \A k \in r[1]..r[2] : intervals[k].flags.silence
        /\ r[1] = 1 \/ ~intervals[r[1] - 1].flags.silence
        /\ r[2] = Len(intervals) \/ ~intervals[r[2] + 1].flags.silence}

\* C11: the silence periods of a built context are the maximal runs of
\* consecutive silent intervals, one entry per run and in order, each with the
\* timestamps of the run's first and last interval and a duration of 1.0 s
\* per interval of the run; a run that reaches the end of the buffer is listed
C11_SilencePeriodsAreMaximalRuns ==
    (last.op = "build_context" /\ last.intervals # <<>>) =>
        LET iv == last.intervals
            runs == SilentRuns(iv)
            sp == last.context.patterns.silence_periods
        IN  /\ Len(sp) = Cardinality(runs)
            /\ \A r \in runs :
                  LET k == Cardinality({q \in runs : q[1] <= r[1]})
                  IN  /\ k <= Len(sp)
                      /\ sp[k].start_timestamp = iv[r[1]].timestamp
                      /\ sp[k].end_timestamp = iv[r[2]].timestamp
                      /\ sp[k].duration = (r[2] - r[1] + 1) * 100

\* C11: a buffer of four intervals, silent, spoken, silent, silent: two
\* periods are listed and the second, of 2.0 s, reaches the end of the buffer
C11_Witness ==
    /\ last.op = "build_context"
    /\ Len(last.intervals) = 4
    /\ last.intervals[1].flags.silence
    /\ ~last.intervals[2].flags.silence
    /\ last.intervals[3].flags.silence
    /\ last.intervals[4].flags.silence
    /\ Len(last.context.patterns.silence_periods) = 2
    /\ last.context.patterns.silence_periods[2].duration = 200
    /\ last.context.patterns.silence_periods[2].end_timestamp =
           last.intervals[4].timestamp

\* C12: the buffer never holds more than window_size intervals; it holds the
\* most recent min(k, window_size) of the k intervals added since the last
\* clear, in arrival order; an append to a full buffer drops the oldest
\* interval and no other (last.added is the history of the intervals added
\* since the last clear)
C12_BufferHoldsMostRecent ==
    LET k == Len(last.added)
        n == IF k < buf.window_size THEN k ELSE buf.window_size
    IN  /\ Len(buf.intervals) <= buf.window_size
        /\ Len(buf.intervals) = n
        /\ \A i \in 1..n : buf.intervals[i] = last.added[k - n + i]
        /\ (last.op = "add_interval"
              /\ Len(last.pre.intervals) = last.pre.window_size) =>
                 buf.intervals =
                     Append(Tail(last.pre.intervals), last.added[k])

\* C12: a fifth interval was added to a full buffer: the first is gone and
\* the other four are left
C12_Witness ==
    /\ last.op = "add_interval"
    /\ Len(last.added) = 5
    /\ Len(last.pre.intervals) = 4
    /\ Len(buf.intervals) = 4
    /\ buf.intervals[1] = last.added[2]
    /\ buf.intervals[1] # last.added[1]

\* C13: emitted intervals are in strictly increasing temporal order and do
\* not overlap: each starts after the start of the one before it and not
\* before its end (frame times never decrease)
C13_IntervalsOrdered ==
    \A i \in 1..(Len(emitted) - 1) :
        /\ emitted[i].interval_start < emitted[i + 1].interval_start
        /\ emitted[i].interval_end <= emitted[i + 1].interval_start

\* C13: two intervals were emitted and the second starts at the very time
\* the first ended
C13_Witness ==
    /\ Len(emitted) >= 2
    /\ emitted[2].interval_start = emitted[1].interval_end
    /\ emitted[1].interval_start < emitted[1].interval_end

\* C13: two intervals were emitted with time between them
C13_WitnessGap ==
    /\ Len(emitted) >= 2
    /\ emitted[2].interval_start > emitted[1].interval_end

\* C14: an emitted interval's emotion_shift flag is true exactly when one of
\* its top emotions has the trend "increasing" or "decreasing"
C14_EmotionShiftFollowsTrends ==
    \A i \in 1..Len(emitted) :
        emitted[i].flags.emotion_shift <=>
            \E j \in 1..Len(emitted[i].top_emotions) :
                emitted[i].top_emotions[j].trend \in {"increasing", "decreasing"}

\* C15: the words map_to_interval returns are in non-decreasing order of
\* timestamp, and the joined text lists them in that order, whatever the
\* order in which add_word received them
C15_WordsSortedByTimestamp ==
    last.op = "map_to_interval" =>
        /\ \A i, j \in 1..Len(last.words) :
              i < j => last.words[i].timestamp <= last.words[j].timestamp
        /\ Len(last.full_text) = Len(last.words)
        /\ \A i \in 1..Len(last.words) : last.full_text[i] = last.words[i].word

\* C16: an add_interval call that returns true sets last_llm_update to the
\* call's time, whatever caused the trigger; a call that returns false
\* leaves last_llm_update as it was
C16_TriggerResetsClock ==
    last.op = "add_interval" =>
        IF last.ret THEN buf.last_llm_update = Some(last.time)
        ELSE buf.last_llm_update = last.pre.last_llm_update

\* C16: a trigger caused by a state transition alone (the period has not
\* elapsed and no recent interval carries emotion_shift) moved the clock
C16_Witness ==
    /\ last.op = "add_interval"
    /\ last.ret
    /\ ~IsNone(last.pre.last_llm_update)
    /\ last.time - Val(last.pre.last_llm_update) < update_interval
    /\ ~buf.intervals[window_size].flags.emotion_shift
    /\ ~buf.intervals[window_size - 1].flags.emotion_shift
    /\ buf.intervals[window_size].flags.state_transition
    /\ buf.last_llm_update = Some(last.time)
    /\ buf.last_llm_update # last.pre.last_llm_update

\* C16: a call on a full buffer returned false and the clock kept the time
\* of the earlier trigger
C16_WitnessFalse ==
    /\ last.op = "add_interval"
    /\ ~last.ret
    /\ ~IsNone(last.pre.last_llm_update)
    /\ buf.last_llm_update = last.pre.last_llm_update
    /\ Val(buf.last_llm_update) < last.time

\* C16: triggers caused by the elapsed period and by an emotion shift
C16_WitnessElapsed ==
    /\ last.op = "add_interval" /\ last.ret
    /\ ~IsNone(last.pre.last_llm_update)
    /\ last.time - Val(last.pre.last_llm_update) >= update_interval
    /\ buf.last_llm_update = Some(last.time)

C16_WitnessShift ==
    /\ last.op = "add_interval" /\ last.ret
    /\ ~IsNone(last.pre.last_llm_update)
    /\ last.time - Val(last.pre.last_llm_update) < update_interval
    /\ buf.intervals[window_size].flags.emotion_shift
    /\ ~buf.intervals[window_size].flags.state_transition
    /\ ~buf.intervals[window_size - 1].flags.state_transition
    /\ buf.last_llm_update = Some(last.time)

\* ------------------------------------------------- the close on its own tick
\* process_completed_interval called on a tick of its own, at any time,
\* besides the calls handle_video_frame makes: the window it closes may hold
\* no frame.

MaxCloseEvents == 6

\* the classifier outputs of this specification: a curious and an
\* enthusiastic face
CloseSamples ==
    {e \in FaceSamples : e.Interest # 500}

CloseInit ==
    /\ agg = NewAggregator
    /\ sm = NewMapper
    /\ buf = NewBuffer
    /\ now = 1000
    /\ emitted = <<>>
    /\ active_connections = OneConnection
    /\ tasks = {}
    /\ hume_client = None
    /\ advice_cache = NewAdviceCache
    /\ last = [op |-> "connect", events |-> 0, pre |-> None, ret |-> None]

\* handle_video_frame, one window after the previous event
CloseVideoFrame ==
    /\ last.events < MaxCloseEvents
    /\ UNCHANGED <<hume_client, advice_cache, active_connections, tasks>>
    /\ \E e \in CloseSamples :
          \E r \in {handle_video_frame(agg, sm, buf, Val(analyze_face(e)),
                                       now + interval_duration, TRUE, TRUE)} :
              /\ now' = now + interval_duration
              /\ agg' = r.agg
              /\ sm' = r.sm
              /\ buf' = r.buf
              /\ emitted' = IF IsNone(r.interval) THEN emitted
                            ELSE Append(emitted, Val(r.interval))
              /\ last' = [op |-> "video_frame", events |-> last.events + 1,
                          pre |-> None, ret |-> r.interval]

\* a word spoken at the time of the previous event
CloseAudioChunk ==
    /\ last.events < MaxCloseEvents
    /\ sm' = add_word(sm, "hello", now, 90)
    /\ last' = [op |-> "audio_chunk", events |-> last.events + 1,
                pre |-> None, ret |-> None]
    /\ UNCHANGED <<hume_client, advice_cache, active_connections, tasks, agg, buf, now, emitted>>

\* process_completed_interval on its own, half a window after the previous
\* event
CloseTick ==
    /\ last.events < MaxCloseEvents
    /\ UNCHANGED <<hume_client, advice_cache, active_connections, tasks>>
    /\ \E io_ok \in BOOLEAN :
       \E r \in {process_completed_interval(agg, sm, buf,
                                            now + interval_duration \div 2,
                                            io_ok, TRUE)} :
          /\ now' = now + interval_duration \div 2
          /\ agg' = r.agg
          /\ sm' = r.sm
          /\ buf' = r.buf
          /\ emitted' = IF IsNone(r.interval) THEN emitted
                        ELSE Append(emitted, Val(r.interval))
          /\ last' = [op |-> "tick", events |-> last.events + 1,
                      pre |-> Some([agg |-> agg, sm |-> sm, buf |-> buf,
                                    emitted |-> emitted]),
                      ret |-> r.interval]

\* handle_video_frame when the classifier found no face: analyze_face
\* returns None, an emotion_error message is sent and the handler returns
\* before add_frame
CloseNoFace ==
    /\ last.events < MaxCloseEvents
    /\ now' = now + interval_duration
    /\ last' = [op |-> "no_face", events |-> last.events + 1,
                pre |-> Some([agg |-> agg, sm |-> sm, buf |-> buf,
                              emitted |-> emitted]),
                ret |-> None]
    /\ UNCHANGED <<hume_client, advice_cache, active_connections, tasks, agg, sm, buf, emitted>>

CloseNext == CloseVideoFrame \/ CloseAudioChunk \/ CloseTick \/ CloseNoFace

SpecClose == CloseInit /\ [][CloseNext]_vars

\* C17: a close on a window without frames returns no interval and changes
\* nothing: the aggregator (previous top emotions, previous state, interval
\* count), the speech mapper's pending words and the buffer with its
\* counters and trigger clock are as before, and no interval is emitted
C17_EmptyCloseChangesNothing ==
    (last.op = "tick" /\ Val(last.pre).agg.current_interval_frames = <<>>) =>
        /\ IsNone(last.ret)
        /\ agg = Val(last.pre).agg
        /\ sm = Val(last.pre).sm
        /\ buf = Val(last.pre).buf
        /\ emitted = Val(last.pre).emitted

\* C17: a close on an empty window after an interval was emitted, with a
\* word pending in the mapper and an interval in the buffer
C17_Witness ==
    /\ last.op = "tick"
    /\ Val(last.pre).agg.current_interval_frames = <<>>
    /\ IsNone(last.ret)
    /\ agg.interval_count >= 1
    /\ ~IsNone(agg.previous_top_emotions)
    /\ sm.pending_words # <<>>
    /\ buf.intervals # <<>>
    /\ buf.total_intervals >= 1

\* ------------------------------------------- the buffer given any interval
\* add_interval called with intervals whose bounds are arbitrary: reversed,
\* empty, or earlier than the interval added before.

MaxOrderAdds == 3

\* the interval bounds handed to add_interval
OrderTimes == {1000, 1100, 1200}

OrderInit ==
    /\ agg = NewAggregator
    /\ sm = NewMapper
    /\ buf = NewBuffer
    /\ now = 1000
    /\ emitted = <<>>
    /\ active_connections = OneConnection
    /\ tasks = {}
    /\ hume_client = None
    /\ advice_cache = NewAdviceCache
    /\ last = [op |-> "init", raised |-> FALSE, pre |-> None, iv |-> None]

\* add_interval has no raise statement and no call that raises on a
\* dictionary: it always returns
OrderAddInterval ==
    /\ buf.total_intervals < MaxOrderAdds
    /\ \E start \in OrderTimes, end \in OrderTimes :
          LET iv == SyntheticInterval(start, end, "baseline", <<>>, FALSE,
                                      FALSE, TRUE, <<>>)
              r == add_interval(buf, iv, now + interval_duration)
          IN  /\ now' = now + interval_duration
              /\ buf' = r.buf
              /\ last' = [op |-> "add_interval", raised |-> FALSE,
                          pre |-> Some(buf), iv |-> Some(iv)]
    /\ UNCHANGED <<hume_client, advice_cache, active_connections, tasks, agg, sm, emitted>>

OrderNext == OrderAddInterval

SpecOrder == OrderInit /\ [][OrderNext]_vars

\* C18: add_interval given an interval that ends at or before its start, or
\* that starts before the end of the interval added last, raises an error
\* and appends nothing
C18_MalformedIntervalRejected ==
    (/\ last.op = "add_interval"
     /\ \/ Val(last.iv).interval_end <= Val(last.iv).interval_start
        \/ /\ Val(last.pre).intervals # <<>>
           /\ Val(last.iv).interval_start <
                  Val(last.pre).intervals[Len(Val(last.pre).intervals)].interval_end)
        => (last.raised /\ buf.intervals = Val(last.pre).intervals)

\* ---------------------------------------------------------- several sessions
\* The server with several websocket connections. Here agg, sm and buf hold
\* every component object ever constructed, indexed by object identity, and
\* active_connections maps each connected client id to the identities of its
\* three components. A handler is a coroutine: it is started by the message
\* loop of its connection, gives up control at its awaits and is resumed
\* later, so handlers of different connections interleave.

ClientIds == {"c1", "c2"}

MaxMessages == 4

\* mutant: every connection gets the speech mapper constructed first
connect_shared_mapper(conns, client_id, fresh) ==
    [c \in DOMAIN conns \cup {client_id} |->
        IF c = client_id
        THEN [interval_aggregator |-> fresh, speech_mapper |-> 1,
              timeseries_buffer |-> fresh]
        ELSE conns[c]]

\* ConnectionManager.connect: the dictionary with the entry of client_id,
\* whose components are the objects just constructed (identity fresh)
connect(conns, client_id, fresh) ==
    [c \in DOMAIN conns \cup {client_id} |->
        IF c = client_id
        THEN [interval_aggregator |-> fresh, speech_mapper |-> fresh,
              timeseries_buffer |-> fresh]
        ELSE conns[c]]

\* ConnectionManager.disconnect
disconnect(conns, client_id) ==
    [c \in DOMAIN conns \ {client_id} |-> conns[c]]

\* mutant: the loop starts the handler as a task of its own and goes on to
\* the next message
loop_at_receive_spawning(ts, client_id) == TRUE

\* the message loop of client_id is at receive_text: it awaits handle_message
\* before it reads again, so no handler it started is still in flight
loop_at_receive(ts, client_id) ==
    \A t \in ts : t.client # client_id

SessInit ==
    /\ agg = <<>>
    /\ sm = <<>>
    /\ buf = <<>>
    /\ now = 1000
    /\ emitted = <<>>
    /\ active_connections = <<>>
    /\ tasks = {}
    /\ hume_client = None
    /\ advice_cache = NewAdviceCache
    /\ last = [op |-> "startup", client |-> "", messages |-> 0, issued |-> {}]

\* websocket_endpoint up to the message loop: a fresh client id and connect
SessConnect ==
    \E c \in ClientIds \ last.issued :
        /\ active_connections' = connect(active_connections, c, Len(agg) + 1)
        /\ agg' = Append(agg, NewAggregator)
        /\ sm' = Append(sm, NewMapper)
        /\ buf' = Append(buf, NewBuffer)
        /\ last' = [last EXCEPT !.op = "connect", !.client = c,
                                !.issued = @ \cup {c}]
        /\ UNCHANGED <<hume_client, advice_cache, now, emitted, tasks>>

\* the loop receives a video_frame or audio_chunk message and starts its
\* handler, which runs up to its first await
SessReceive ==
    \E c \in DOMAIN active_connections, kind \in {"video_frame", "audio_chunk"},
       e \in CloseSamples :
        /\ last.messages < MaxMessages
        /\ loop_at_receive(tasks, c)
        /\ kind = "audio_chunk" => e = CHOOSE x \in CloseSamples : TRUE
        /\ now' = now + interval_duration
        /\ tasks' = tasks \cup {[client |-> c, kind |-> kind, pc |-> "start",
                                 current_time |-> now + interval_duration,
                                 data |-> e, interval |-> None]}
        /\ last' = [last EXCEPT !.op = "receive", !.client = c,
                                !.messages = @ + 1]
        /\ UNCHANGED <<hume_client, advice_cache, agg, sm, buf, emitted, active_connections>>

\* handle_video_frame resumed after the classifier and the emotion_result
\* message: add_frame and, when the interval is complete, get_interval and
\* update_interval_with_speech, up to the interval_complete message
SessVideoAnalyzed ==
    \E t \in tasks :
        /\ t.kind = "video_frame" /\ t.pc = "start"
        /\ IF t.client \notin DOMAIN active_connections
           THEN /\ tasks' = tasks \ {t}
                /\ UNCHANGED <<hume_client, advice_cache, agg, sm, emitted>>
           ELSE \E conn \in {active_connections[t.client]} :
                \E a1 \in {add_frame(agg[conn.interval_aggregator],
                                     Val(analyze_face(t.data)),
                                     t.current_time, TRUE)} :
                   IF ~interval_complete(a1, t.current_time)
                   THEN /\ agg' = [agg EXCEPT ![conn.interval_aggregator] = a1]
                        /\ tasks' = tasks \ {t}
                        /\ UNCHANGED <<hume_client, advice_cache, sm, emitted>>
                   ELSE \E g \in {get_interval(a1, t.current_time)} :
                        \E u \in {update_interval_with_speech(
                                      sm[conn.speech_mapper], Val(g.interval))} :
                           /\ agg' = [agg EXCEPT
                                         ![conn.interval_aggregator] = g.agg]
                           /\ sm' = [sm EXCEPT ![conn.speech_mapper] = u.sm]
                           /\ emitted' = Append(emitted, u.interval)
                           /\ tasks' = (tasks \ {t}) \cup
                                  {[t EXCEPT !.pc = "interval_sent",
                                             !.interval = Some(u.interval)]}
        /\ last' = [last EXCEPT !.op = "video_analyzed", !.client = t.client]
        /\ UNCHANGED <<hume_client, advice_cache, buf, now, active_connections>>

\* process_completed_interval resumed after the interval_complete message:
\* add_interval and, on a trigger, trigger_llm_update
SessIntervalSent ==
    \E t \in tasks :
        /\ t.pc = "interval_sent"
        /\ IF t.client \notin DOMAIN active_connections
           THEN UNCHANGED buf
           ELSE \E conn \in {active_connections[t.client]} :
                \E r \in {add_interval(buf[conn.timeseries_buffer],
                                       Val(t.interval), t.current_time)} :
                   buf' = [buf EXCEPT ![conn.timeseries_buffer] =
                              IF r.ret THEN trigger_llm_update(r.buf, TRUE)
                              ELSE r.buf]
        /\ tasks' = tasks \ {t}
        /\ last' = [last EXCEPT !.op = "interval_sent", !.client = t.client]
        /\ UNCHANGED <<hume_client, advice_cache, agg, sm, now, emitted, active_connections>>

\* handle_audio_chunk resumed after the transcription: the word is added
\* with the time read then
SessAudioTranscribed ==
    \E t \in tasks :
        /\ t.kind = "audio_chunk" /\ t.pc = "start"
        /\ IF t.client \notin DOMAIN active_connections
           THEN UNCHANGED sm
           ELSE sm' = [sm EXCEPT
                          ![active_connections[t.client].speech_mapper] =
                              add_word(@, "hello", now, 90)]
        /\ tasks' = tasks \ {t}
        /\ last' = [last EXCEPT !.op = "audio_transcribed",
                                !.client = t.client]
        /\ UNCHANGED <<hume_client, advice_cache, agg, buf, now, emitted, active_connections>>

\* the socket closes, or a disconnect message is received: the loop of the
\* connection ends with manager.disconnect
SessDisconnect ==
    \E c \in DOMAIN active_connections :
        /\ loop_at_receive(tasks, c)
        /\ active_connections' = disconnect(active_connections, c)
        /\ last' = [last EXCEPT !.op = "disconnect", !.client = c]
        /\ UNCHANGED <<hume_client, advice_cache, agg, sm, buf, now, emitted, tasks>>

SessNext ==
    \/ SessConnect
    \/ SessReceive
    \/ SessVideoAnalyzed
    \/ SessIntervalSent
    \/ SessAudioTranscribed
    \/ SessDisconnect

SpecSessions == SessInit /\ [][SessNext]_vars

\* no component object belongs to two connections
NoSharedComponent ==
    \A c, d \in DOMAIN active_connections :
        c # d =>
            /\ active_connections[c].interval_aggregator #
                   active_connections[d].interval_aggregator
            /\ active_connections[c].speech_mapper #
                   active_connections[d].speech_mapper
            /\ active_connections[c].timeseries_buffer #
                   active_connections[d].timeseries_buffer

\* a step taken for one client leaves the entry and the three components of
\* every other connected client as they were
OtherSessionsUntouched ==
    \A d \in DOMAIN active_connections :
        d # last'.client =>
            /\ d \in DOMAIN active_connections'
            /\ active_connections'[d] = active_connections[d]
            /\ agg'[active_connections[d].interval_aggregator] =
                   agg[active_connections[d].interval_aggregator]
            /\ sm'[active_connections[d].speech_mapper] =
                   sm[active_connections[d].speech_mapper]
            /\ buf'[active_connections[d].timeseries_buffer] =
                   buf[active_connections[d].timeseries_buffer]

\* C19: session isolation: no component object is reachable from two client
\* ids, and handling any event of one session (connect, message, resumed
\* handler, window close, buffer append, disconnect) leaves the aggregator,
\* speech mapper and buffer of every other session unchanged
C19_SessionIsolation ==
    [] NoSharedComponent /\ [][OtherSessionsUntouched]_vars

\* C19: two sessions are connected, the second holds a frame and a pending
\* word, and a frame of the first has just been added to its own aggregator
C19_Witness ==
    /\ DOMAIN active_connections = {"c1", "c2"}
    /\ last.op = "video_analyzed" /\ last.client = "c1"
    /\ agg[active_connections["c1"].interval_aggregator].current_interval_frames
           # <<>>
    /\ agg[active_connections["c2"].interval_aggregator].current_interval_frames
           # <<>>
    /\ sm[active_connections["c2"].speech_mapper].pending_words # <<>>
    /\ sm[active_connections["c1"].speech_mapper].pending_words = <<>>

\* C20: no session ever has two handlers in flight: the handler of a message
\* has finished, with everything it does, before the next message of the
\* same session is handled
C20_HandlersSequentialPerSession ==
    \A c \in ClientIds : Cardinality({t \in tasks : t.client = c}) <= 1

\* C20: handlers of two sessions are in flight at once, one of them stopped
\* between the close of an interval and the append to the buffer
C20_Witness ==
    \E t1, t2 \in tasks :
        /\ t1.client # t2.client
        /\ t1.pc = "interval_sent"
        /\ t2.pc = "start"

\* C21: a classifier result without a detected face is recorded as a sample
\* with face_detected false: the open window has one more frame, not
\* detected, or the interval it closed counts it in frames_count and not in
\* faces_detected
C21_UndetectedFrameRecorded ==
    last.op = "no_face" =>
        LET pre == Val(last.pre).agg.current_interval_frames
            cur == agg.current_interval_frames
            detected == Len(SelectSeq(pre, LAMBDA f : f.face_detected))
        IN  \/ /\ Len(cur) = Len(pre) + 1
               /\ ~cur[Len(cur)].face_detected
            \/ /\ Len(emitted) = Len(Val(last.pre).emitted) + 1
               /\ emitted[Len(emitted)].frames_count = Len(pre) + 1
               /\ emitted[Len(emitted)].faces_detected = detected


\* C22: the Category Mapper applied to an empty score map does not raise and
\* returns the default: the category 'baseline' together with a representative
\* emotion, so that analyze_face yields a result.
C22_EmptyMapYieldsDefault ==
    (/\ last.op = "classify"
     /\ DOMAIN last.emotions = {})
        => /\ last.investor_state = "baseline"
           /\ ~last.primary.raised
           /\ ~IsNone(last.result)


\* ======================================================================
\* SpecTrigger: the end of process_completed_interval, add_interval followed
\* by trigger_llm_update when it returned true, over a stream of intervals
\* that arrive half a window or a whole window apart.  The advice message may
\* fail to be sent.
\* ======================================================================

MaxTriggerAdds == 8

TriggerSteps == {interval_duration \div 2, interval_duration}

\* does any buffered interval carry emotion_shift or state_transition
AnyEventFlag(b) ==
    \E i \in 1..Len(b.intervals) :
        \/ b.intervals[i].flags.emotion_shift
        \/ b.intervals[i].flags.state_transition

TrigInit ==
    /\ agg = NewAggregator
    /\ sm = NewMapper
    /\ buf = NewBuffer
    /\ now = 1000
    /\ emitted = <<>>
    /\ active_connections = OneConnection
    /\ tasks = {}
    /\ hume_client = None
    /\ advice_cache = NewAdviceCache
    /\ last = [op |-> "init", adds |-> 0, trues |-> 0, ret |-> FALSE,
               sent |-> FALSE, quiet |-> 0, before |-> 0]

\* main.py:315-319.  adds and trues count the calls and the true returns;
\* quiet is the length of the run of calls up to this one that found the
\* buffer full and without event flags, came at least one window after the
\* call before, and returned false
TrigAddInterval ==
    /\ last.adds < MaxTriggerAdds
    /\ \E dt \in TriggerSteps, st \in BOOLEAN, send_ok \in BOOLEAN :
       \E r \in {add_interval(buf,
                     SyntheticInterval(now + dt - interval_duration, now + dt,
                                       IF st THEN "curious" ELSE "baseline",
                                       <<>>, FALSE, st, TRUE, <<>>),
                     now + dt)} :
          /\ now' = now + dt
          /\ buf' = IF r.ret THEN trigger_llm_update(r.buf, send_ok) ELSE r.buf
          /\ last' = [op |-> "add_interval", adds |-> last.adds + 1,
                      trues |-> last.trues + (IF r.ret THEN 1 ELSE 0),
                      ret |-> r.ret, sent |-> r.ret /\ send_ok,
                      quiet |-> IF /\ ~r.ret
                                   /\ Len(r.buf.intervals) = r.buf.window_size
                                   /\ ~AnyEventFlag(r.buf)
                                   /\ dt >= interval_duration
                                THEN last.quiet + 1 ELSE 0,
                      before |-> last.quiet]
    /\ UNCHANGED <<hume_client, advice_cache, active_connections, tasks, agg, sm, emitted>>

TrigNext == TrigAddInterval

SpecTrigger == TrigInit /\ [][TrigNext]_vars

\* C23: the counter of triggers fired equals the number of add_interval calls
\* that returned true, and the counter of intervals equals the number of
\* add_interval calls.
C23_CountersMatchCalls ==
    /\ buf.llm_updates_sent = last.trues
    /\ buf.total_intervals = last.adds

\* C25: on a full buffer without event flags, with calls at least one window
\* apart, fewer than window_size successive add_interval calls return false:
\* every run of window_size such calls holds a true return, the update period
\* being window_size windows long.
C25_PeriodicCadence ==
    /\ update_interval = window_size * interval_duration
    /\ last.quiet < window_size

\* C25: the period alone triggered, after window_size - 1 quiet calls
C25_Witness ==
    /\ last.op = "add_interval"
    /\ last.ret
    /\ last.before = window_size - 1
    /\ ~AnyEventFlag(buf)
    /\ last.adds = 2 * window_size


\* the fields update_interval_with_speech assigns (speech_mapper.py:225-230)
SpeechFields == {"words", "full_text", "speech_stats"}

\* the interval as get_interval returned it to the process_completed_interval
\* call of the last step
ClosedInterval == Val(get_interval(Val(last.pre).agg, now).interval)

\* C24 as stated: the interval the aggregator's close returned is never
\* changed afterwards, the speech merge included.
C24_ImmutableOnceClosed ==
    (last.op = "tick" /\ ~IsNone(last.ret)) =>
        Val(last.ret) = ClosedInterval

\* C24, amended: the speech merge is the one step that changes a closed
\* interval, and only its words, full_text, speech_stats and flags.silence;
\* from then on the interval is immutable: every interval the buffer holds is
\* field for field an interval as it left the merge, whatever add_frame,
\* get_interval, add_word, map_to_interval and add_interval calls came after.
C24_ImmutableOnceMerged ==
    /\ (last.op = "tick" /\ ~IsNone(last.ret)) =>
           /\ \A f \in DOMAIN ClosedInterval \ (SpeechFields \cup {"flags"}) :
                  Val(last.ret)[f] = ClosedInterval[f]
           /\ \A f \in DOMAIN ClosedInterval.flags \ {"silence"} :
                  Val(last.ret).flags[f] = ClosedInterval.flags[f]
           /\ DOMAIN Val(last.ret) = DOMAIN ClosedInterval \cup SpeechFields
           /\ emitted[Len(emitted)] = Val(last.ret)
    /\ \A i \in 1..Len(buf.intervals) :
           \E j \in 1..Len(emitted) : buf.intervals[i] = emitted[j]
    /\ \A j \in 1..Len(emitted) : \A k \in 1..Len(emitted) :
           emitted[j].interval_start = emitted[k].interval_start => j = k

\* C24: an interval that received a word in the merge sits first in the
\* buffer unchanged after a further frame and a further close
C24_Witness ==
    /\ last.op = "tick"
    /\ ~IsNone(last.ret)
    /\ Len(emitted) >= 2
    /\ emitted[1].words # <<>>
    /\ Len(buf.intervals) >= 2
    /\ buf.intervals[1] = emitted[1]


\* the clock values interval_complete may be asked about next
QueryTimes == {now + dt : dt \in AggSteps}

ClosedStates ==
    [i \in 1..Len(Val(last.pre).current_interval_frames) |->
        Val(last.pre).current_interval_frames[i].state]

Occurrences(states, s) ==
    Cardinality({i \in 1..Len(states) : states[i] = s})

FirstOccurrence(states, s) ==
    CHOOSE i \in 1..Len(states) :
        /\ states[i] = s
        /\ \A j \in 1..(i - 1) : states[j] # s

\* C28: the dominant state of a closed interval is a state of one of its
\* frames that no other state occurs more often than, and among the states
\* that occur as often it is the one seen first; without any state it is
\* 'neutral'.
C28_DominantStateMajority ==
    /\ get_dominant_state(<<>>) = "neutral"
    /\ last.closed =>
           LET d == emitted[Len(emitted)].investor_state
           IN  /\ d \in Range(ClosedStates)
               /\ \A s \in Range(ClosedStates) :
                      /\ Occurrences(ClosedStates, s)
                             <= Occurrences(ClosedStates, d)
                      /\ Occurrences(ClosedStates, s)
                             = Occurrences(ClosedStates, d)
                         => FirstOccurrence(ClosedStates, d)
                                <= FirstOccurrence(ClosedStates, s)

\* C28: a tie between two states, won by the one seen first
C28_Witness ==
    /\ last.closed
    /\ ClosedStates = <<"enthusiastic", "curious">>
    /\ emitted[Len(emitted)].investor_state = "enthusiastic"

\* C28: the state seen first loses to a state that occurs more often
C28_WitnessMajority ==
    /\ last.closed
    /\ ClosedStates = <<"curious", "enthusiastic", "enthusiastic">>
    /\ emitted[Len(emitted)].investor_state = "enthusiastic"


\* the buffer holds intervals emitted one after the other, none missing
BufferConsecutive ==
    \E k \in 0..(Len(emitted) - Len(buf.intervals)) :
        \A i \in 1..Len(buf.intervals) : buf.intervals[i] = emitted[k + i]

\* positions of the buffer past the first whose state_transition flag is set
FlaggedTransitions ==
    SelectSeq([i \in 1..Len(buf.intervals) |-> i],
              LAMBDA i : i >= 2 /\ buf.intervals[i].flags.state_transition)

\* C27: an emitted interval's state_transition flag is set exactly when its
\* investor_state differs from that of the interval emitted just before it;
\* and when the buffer holds consecutively emitted intervals, the state
\* transitions of the context are, in order, one for each buffered interval
\* past the first whose flag is set.
C27_TransitionFlagMatchesContext ==
    /\ \A i \in 2..Len(emitted) :
           emitted[i].flags.state_transition
               <=> emitted[i].investor_state # emitted[i - 1].investor_state
    /\ BufferConsecutive =>
           LET transitions == find_state_transitions(get_context(buf))
           IN  /\ Len(transitions) = Len(FlaggedTransitions)
               /\ \A n \in 1..Len(transitions) :
                      LET iv == buf.intervals[FlaggedTransitions[n]]
                      IN  /\ transitions[n].timestamp = iv.timestamp
                          /\ transitions[n].to_state = iv.investor_state

\* C27: three buffered intervals, the second flagged and the third not, and
\* one transition in the context
C27_Witness ==
    /\ Len(buf.intervals) = 3
    /\ BufferConsecutive
    /\ buf.intervals[2].flags.state_transition
    /\ ~buf.intervals[3].flags.state_transition
    /\ Len(find_state_transitions(get_context(buf))) = 1


\* ======================================================================
\* SpecTrends: get_emotion_trends over buffers whose intervals do not all
\* carry the same top emotions.
\* ======================================================================

MaxTrendAdds == 4

\* top_emotions of an interval: Interest at 0.1, 0.3 or 0.5 ahead of Joy and
\* Calmness, or Interest out of the top three
TrendTops ==
    {<<[name |-> "Interest", avg_score |-> s, trend |-> "stable"],
       [name |-> "Joy", avg_score |-> 90, trend |-> "stable"],
       [name |-> "Calmness", avg_score |-> 80, trend |-> "stable"]>> :
        s \in {100, 300, 500}}
    \cup {<<[name |-> "Joy", avg_score |-> 90, trend |-> "stable"],
            [name |-> "Calmness", avg_score |-> 80, trend |-> "stable"],
            [name |-> "Confusion", avg_score |-> 70, trend |-> "stable"]>>}

TrendInit ==
    /\ agg = NewAggregator
    /\ sm = NewMapper
    /\ buf = NewBuffer
    /\ now = 1000
    /\ emitted = <<>>
    /\ active_connections = OneConnection
    /\ tasks = {}
    /\ hume_client = None
    /\ advice_cache = NewAdviceCache
    /\ last = [op |-> "init", trends |-> <<>>]

TrendAddInterval ==
    /\ buf.total_intervals < MaxTrendAdds
    /\ \E top \in TrendTops :
          /\ now' = now + interval_duration
          /\ buf' = add_interval(buf,
                        SyntheticInterval(now, now + interval_duration,
                                          "curious", top, FALSE, FALSE, TRUE,
                                          <<>>),
                        now + interval_duration).buf
          /\ last' = [op |-> "add_interval", trends |-> <<>>]
    /\ UNCHANGED <<hume_client, advice_cache, active_connections, tasks, agg, sm, emitted>>

\* trigger_llm_update line 348
TrendGet ==
    /\ last.op = "add_interval"
    /\ last' = [op |-> "get_emotion_trends",
                trends |-> get_emotion_trends(buf)]
    /\ UNCHANGED <<hume_client, advice_cache, active_connections, tasks, agg, sm, buf, now, emitted>>

TrendNext == TrendAddInterval \/ TrendGet

SpecTrends == TrendInit /\ [][TrendNext]_vars

\* the scores of a category in the buffered intervals lo..hi, an interval
\* without the category giving the score absent
HalfScores(name, lo, hi, absent) ==
    LET Score(i) ==
            LET of == SelectSeq(buf.intervals[i].top_emotions,
                                LAMBDA e : e.name = name)
            IN  IF of = <<>> THEN absent ELSE <<of[1].avg_score>>
    IN  Flatten([k \in 1..(hi - lo + 1) |-> Score(lo + k - 1)])

\* the label of mean(second) - mean(first) against +-0.05
HalfTrend(first, second) ==
    LET diff == SumSeq(second) * Len(first) - SumSeq(first) * Len(second)
        bound == TrendThreshold * Len(first) * Len(second)
    IN  IF diff > bound THEN "increasing"
        ELSE IF diff < -bound THEN "decreasing"
        ELSE "stable"

\* does the category appear in both halves of the buffer
InBothHalves(name) ==
    LET n == Len(buf.intervals)
    IN  /\ HalfScores(name, 1, n \div 2, <<>>) # <<>>
        /\ HalfScores(name, n \div 2 + 1, n, <<>>) # <<>>

\* the labels a comparison of the halves of the buffer by interval index can
\* give a category: intervals without the category left out of the means, or
\* counted as 0
IndexTrends(name) ==
    LET n == Len(buf.intervals)
        mid == n \div 2
    IN  {HalfTrend(HalfScores(name, 1, mid, absent),
                   HalfScores(name, mid + 1, n, absent)) :
            absent \in {<<>>, <<0>>}}

\* C29: the trend of every category that appears in both halves of the
\* buffer is the comparison of its mean over the first half of the buffered
\* intervals with its mean over the second half, the halves taken by interval
\* index.
C29_TrendsByIntervalIndex ==
    last.op = "get_emotion_trends" =>
        \A name \in DOMAIN last.trends :
            InBothHalves(name) => last.trends[name] \in IndexTrends(name)


\* C30: the category returned is one of the six fixed categories; a category
\* other than 'baseline' is returned only when its weighted sum is the
\* highest of all and strictly above the floor 0.10; when no weighted sum is
\* above the floor the result is 'baseline'; and when some sum is above the
\* floor the category returned has the highest sum.
C30_WinnerAboveFloor ==
    last.op = "classify" =>
        LET won == last.investor_state
            Score(c) == StateScore(last.emotions, c)
            categories == Range(StateOrder)
        IN  /\ won \in categories
            /\ won # "baseline" =>
                   /\ Score(won) > StateThreshold
                   /\ \A c \in categories : Score(c) <= Score(won)
            /\ (\A c \in categories : Score(c) <= StateThreshold)
                   => won = "baseline"
            /\ (\E c \in categories : Score(c) > StateThreshold)
                   => \A c \in categories : Score(c) <= Score(won)

\* C30: {Confusion: 0.25} gives 'thinking' the highest sum, exactly 0.10, and
\* the result is 'baseline'
C30_Witness ==
    /\ last.op = "classify"
    /\ last.emotions = [k \in {"Confusion"} |-> 250]
    /\ StateScore(last.emotions, "thinking") = StateThreshold
    /\ StateScore(last.emotions, "baseline") < StateThreshold
    /\ last.investor_state = "baseline"

\* C30: a category wins with the highest sum above the floor
C30_WitnessWinner ==
    /\ last.op = "classify"
    /\ last.investor_state = "thinking"
    /\ StateScore(last.emotions, "thinking") > StateThreshold
    /\ StateScore(last.emotions, "curious") > StateThreshold


\* ======================================================================
\* SpecAdvice: one session whose messages arrive at the socket while the
\* message loop is busy.  The loop reads the next message only when
\* handle_message has returned (main.py:192-201), and handle_message awaits
\* handle_video_frame, which awaits process_completed_interval, which awaits
\* trigger_llm_update, which awaits get_negotiation_coaching.
\* ======================================================================

MaxAdviceMessages == 9

\* messages that wait at the socket, unread
MaxUnread == 2

AdviceInFlight == \E t \in tasks : t.pc = "advice"

AdvInit ==
    /\ agg = NewAggregator
    /\ sm = NewMapper
    /\ buf = NewBuffer
    /\ now = 1000
    /\ emitted = <<>>
    /\ active_connections = OneConnection
    /\ tasks = {}
    /\ hume_client = None
    /\ advice_cache = NewAdviceCache
    /\ last = [op |-> "connect", arrived |-> 0, unread |-> <<>>,
               during |-> 0]

\* the client sends a message: it waits at the socket until the loop calls
\* receive_text.  during counts the messages that arrived while the advice
\* call was in flight
AdvArrive ==
    /\ last.arrived < MaxAdviceMessages
    /\ Len(last.unread) < MaxUnread
    /\ \E kind \in {"video_frame", "audio_chunk"}, e \in CloseSamples :
          /\ kind = "audio_chunk" => e = CHOOSE x \in CloseSamples : TRUE
          /\ last' = [op |-> "arrive", arrived |-> last.arrived + 1,
                      unread |-> Append(last.unread,
                                        [kind |-> kind, data |-> e]),
                      during |-> IF AdviceInFlight THEN last.during + 1
                                 ELSE last.during]
    /\ UNCHANGED <<hume_client, advice_cache, agg, sm, buf, now, emitted, active_connections, tasks>>

\* receive_text returns the oldest unread message and its handler runs up to
\* the advice call, or to its end when no advice is triggered
AdvReceive ==
    /\ loop_at_receive(tasks, "c1")
    /\ last.unread # <<>>
    /\ now' = now + interval_duration
    /\ last' = [last EXCEPT !.op = "receive", !.unread = Tail(@)]
    /\ UNCHANGED <<hume_client, advice_cache, emitted, active_connections>>
    /\ \E msg \in {Head(last.unread)} :
          IF msg.kind = "audio_chunk"
          THEN /\ sm' = add_word(sm, "hello", now', 90)
               /\ UNCHANGED <<hume_client, advice_cache, agg, buf, tasks>>
          ELSE \E a1 \in {add_frame(agg, Val(analyze_face(msg.data)), now',
                                    TRUE)} :
               IF ~interval_complete(a1, now')
               THEN /\ agg' = a1
                    /\ UNCHANGED <<hume_client, advice_cache, sm, buf, tasks>>
               ELSE \E g \in {get_interval(a1, now')} :
                    \E u \in {update_interval_with_speech(sm,
                                                          Val(g.interval))} :
                    \E r \in {add_interval(buf, u.interval, now')} :
                       /\ agg' = g.agg
                       /\ sm' = u.sm
                       /\ buf' = r.buf
                       /\ tasks' = IF r.ret
                                   THEN {[client |-> "c1", pc |-> "advice"]}
                                   ELSE {}

\* get_negotiation_coaching returns: the advice is sent, the counter raised,
\* and the handlers return up to the message loop
AdvAdviceReturns ==
    /\ AdviceInFlight
    /\ buf' = trigger_llm_update(buf, TRUE)
    /\ tasks' = {}
    /\ last' = [last EXCEPT !.op = "advice_returned"]
    /\ UNCHANGED <<hume_client, advice_cache, agg, sm, now, emitted, active_connections>>

AdvNext == AdvArrive \/ AdvReceive \/ AdvAdviceReturns

SpecAdvice == AdvInit /\ [][AdvNext]_vars

\* C31: a message that arrives for the session while its advice call is in
\* flight is ingested before the advice returns: when the advice returns, no
\* message that arrived during the call is still unread.
C31_AdviceDoesNotBlockIngestion ==
    (last.op = "advice_returned" /\ last.during > 0) => last.unread = <<>>


\* ======================================================================
\* SpecHume: the lazily created classifier client.  Every video frame first
\* calls get_hume_client; the classifier service is reachable or not, as the
\* environment decides.
\* ======================================================================

MaxHumeFrames == 5

\* HumeClient() with an API key configured
NewHumeClient == [connected |-> FALSE]

\* HumeClient.connect: connected becomes whether the connection was opened
hume_connect(h, reachable) == [h EXCEPT !.connected = reachable]

\* get_hume_client: the global after the call, which is also what it returns
get_hume_client(g, reachable) ==
    IF IsNone(g)
    THEN LET h == NewHumeClient
         IN  IF ~h.connected THEN Some(hume_connect(h, reachable))
             ELSE Some(h)
    ELSE g

HumeInit ==
    /\ agg = NewAggregator
    /\ sm = NewMapper
    /\ buf = NewBuffer
    /\ now = 1000
    /\ emitted = <<>>
    /\ active_connections = OneConnection
    /\ tasks = {}
    /\ hume_client = None
    /\ advice_cache = NewAdviceCache
    /\ \E reachable \in BOOLEAN :
          last = [op |-> "connect", frames |-> 0, reachable |-> reachable,
                  ingested |-> FALSE]

\* the classifier service goes down or comes back
HumeServiceChange ==
    /\ last.op # "service_change"
    /\ last' = [last EXCEPT !.op = "service_change", !.reachable = ~@,
                            !.ingested = FALSE]
    /\ UNCHANGED <<agg, sm, buf, now, emitted, active_connections, tasks,
                   hume_client, advice_cache>>

\* handle_video_frame from get_hume_client on: without a connected client
\* the frame is answered with emotion_error; with one, analyze_face opens a
\* connection of its own and returns None when that fails
HumeVideoFrame ==
    /\ last.frames < MaxHumeFrames
    /\ now' = now + interval_duration
    /\ UNCHANGED <<active_connections, tasks, advice_cache>>
    /\ \E e \in CloseSamples :
       \E hume \in {get_hume_client(hume_client, last.reachable)} :
          /\ hume_client' = hume
          /\ IF ~Val(hume).connected \/ ~last.reachable
             THEN /\ UNCHANGED <<agg, sm, buf, emitted>>
                  /\ last' = [last EXCEPT !.op = "video_frame",
                                          !.frames = @ + 1,
                                          !.ingested = FALSE]
             ELSE \E r \in {handle_video_frame(agg, sm, buf,
                                               Val(analyze_face(e)), now',
                                               TRUE, TRUE)} :
                     /\ agg' = r.agg
                     /\ sm' = r.sm
                     /\ buf' = r.buf
                     /\ emitted' = IF IsNone(r.interval) THEN emitted
                                   ELSE Append(emitted, Val(r.interval))
                     /\ last' = [last EXCEPT !.op = "video_frame",
                                             !.frames = @ + 1,
                                             !.ingested = TRUE]

HumeNext == HumeServiceChange \/ HumeVideoFrame

SpecHume == HumeInit /\ [][HumeNext]_vars

\* C32: a get_hume_client call made while the classifier service is
\* reachable leaves the client connected, whatever happened to earlier
\* connection attempts, and the frame that made the call is ingested.
C32_ReconnectsOnDemand ==
    (last.op = "video_frame" /\ last.reachable) =>
        /\ Val(hume_client).connected
        /\ last.ingested


\* the frames of the window the last step closed, the closing frame included
ClosedFrames == Val(last.pre).current_interval_frames

\* C33: a window is closed by the first frame that comes at least
\* interval_duration after the window's first frame; that frame is the last
\* frame of the interval it closes, so the interval holds at least two
\* frames, ends at the time of its last frame and starts at the time of its
\* first, and the aggregator is left without an open window until the next
\* frame arrives.
C33_ClosingFrameCounted ==
    /\ last.closed =>
          LET iv == emitted[Len(emitted)]
              n == Len(ClosedFrames)
          IN  /\ n >= 2
              /\ iv.frames_count = n
              /\ iv.interval_start = ClosedFrames[1].timestamp
              /\ iv.interval_end = ClosedFrames[n].timestamp
              /\ ClosedFrames[n].timestamp = now
              /\ ClosedFrames[n].timestamp - ClosedFrames[1].timestamp
                     >= interval_duration
              /\ \A i \in 1..(n - 1) :
                     ClosedFrames[i].timestamp - ClosedFrames[1].timestamp
                         < interval_duration
              /\ agg.current_interval_frames = <<>>
              /\ IsNone(agg.current_interval_start)
    /\ \A i \in 1..Len(agg.current_interval_frames) :
          agg.current_interval_frames[i].timestamp
              - agg.current_interval_frames[1].timestamp < interval_duration

\* C33: a window of three frames closed by a frame that came exactly
\* interval_duration after the first, after an earlier interval
C33_Witness ==
    /\ last.closed
    /\ Len(emitted) >= 2
    /\ Len(ClosedFrames) = 3
    /\ emitted[Len(emitted)].interval_end
           - emitted[Len(emitted)].interval_start = interval_duration
    /\ emitted[Len(emitted)].interval_start
           > emitted[Len(emitted) - 1].interval_end


\* ======================================================================
\* SpecFlags: add_interval over intervals that carry no event flag,
\* state_transition or emotion_shift, one window or one update period apart.
\* ======================================================================

MaxFlagAdds == 6

FlagKinds == {"none", "state_transition", "emotion_shift"}

FlagInit ==
    /\ agg = NewAggregator
    /\ sm = NewMapper
    /\ buf = NewBuffer
    /\ now = 1000
    /\ emitted = <<>>
    /\ active_connections = OneConnection
    /\ tasks = {}
    /\ hume_client = None
    /\ advice_cache = NewAdviceCache
    /\ last = [op |-> "init", ret |-> FALSE, pre |-> buf, time |-> now]

FlagAddInterval ==
    /\ buf.total_intervals < MaxFlagAdds
    /\ \E dt \in BufSteps, kind \in FlagKinds :
       \E r \in {add_interval(buf,
                     SyntheticInterval(now + dt - interval_duration, now + dt,
                                       "baseline", <<>>,
                                       kind = "emotion_shift",
                                       kind = "state_transition", TRUE, <<>>),
                     now + dt)} :
          /\ now' = now + dt
          /\ buf' = r.buf
          /\ last' = [op |-> "add_interval", ret |-> r.ret, pre |-> buf,
                      time |-> now + dt]
    /\ UNCHANGED <<hume_client, advice_cache, active_connections, tasks, agg,
                   sm, emitted>>

FlagNext == FlagAddInterval

SpecFlags == FlagInit /\ [][FlagNext]_vars

\* does the i-th buffered interval carry an event flag
EventFlag(i) ==
    \/ buf.intervals[i].flags.state_transition
    \/ buf.intervals[i].flags.emotion_shift

\* C34: on a full buffer the call that appends an interval with
\* state_transition or emotion_shift returns true, and so does the call after
\* it, whatever the next interval carries and however soon it comes; by the
\* third call the interval triggers nothing more: with no flag on the two
\* most recent intervals and the update period not elapsed the call returns
\* false.
C34_FlagTriggersTwice ==
    (last.op = "add_interval" /\ Len(buf.intervals) = window_size) =>
        /\ EventFlag(window_size) => last.ret
        /\ EventFlag(window_size - 1) => last.ret
        /\ (/\ EventFlag(window_size - 2)
            /\ ~EventFlag(window_size - 1)
            /\ ~EventFlag(window_size)
            /\ ~IsNone(last.pre.last_llm_update)
            /\ last.time - Val(last.pre.last_llm_update) < update_interval)
               => ~last.ret

\* C34: the call after the one that appended a flagged interval to a full
\* buffer returns true within the update period, for an interval without a
\* flag
C34_Witness ==
    /\ last.op = "add_interval"
    /\ buf.total_intervals > window_size
    /\ EventFlag(window_size - 1)
    /\ ~EventFlag(window_size)
    /\ last.pre.last_llm_update = Some(last.time - interval_duration)
    /\ last.ret

\* C34: the third call returns false
C34_WitnessThird ==
    /\ last.op = "add_interval"
    /\ buf.total_intervals > window_size + 1
    /\ EventFlag(window_size - 2)
    /\ ~EventFlag(window_size - 1)
    /\ ~EventFlag(window_size)
    /\ ~last.ret


\* the texts of a list of words; the n-th word added has the text n
WordIds(words) == {words[i].word : i \in 1..Len(words)}

\* C35: every word added so far is in exactly one of three places: pending,
\* returned by one map_to_interval call, or discarded; no word was returned
\* twice or is held twice, and total_words_mapped is the number of words
\* returned so far.
C35_WordsPartitioned ==
    LET pending == WordIds(sm.pending_words)
        included == WordIds(last.included)
        discarded == WordIds(last.discarded)
    IN  /\ pending \cup included \cup discarded = 1..last.added
        /\ pending \cap included = {}
        /\ pending \cap discarded = {}
        /\ included \cap discarded = {}
        /\ Cardinality(pending) = Len(sm.pending_words)
        /\ Cardinality(included) = Len(last.included)
        /\ Cardinality(discarded) = Len(last.discarded)
        /\ sm.total_words_mapped = Len(last.included)

\* C35: after two map_to_interval calls one word is pending, one was
\* returned by the first call and one was discarded
C35_Witness ==
    /\ last.op = "map_to_interval"
    /\ last.maps = 2
    /\ Len(sm.pending_words) = 1
    /\ Len(last.included) = 1
    /\ Len(last.discarded) = 1
    /\ last.words = <<>>


\* ------------------------------------------- aggregator with session resets
\* The aggregator driven by frames as in SpecAggregator, and reset between
\* frames by reset_session.

MaxFirstFrames == 4

\* a frame of SpecAggregator, within the frame bound of this specification
FirstVideoFrame ==
    /\ last.frames < MaxFirstFrames
    /\ AggVideoFrame

AggResetSession ==
    /\ last.frames > 0
    /\ agg' = aggregator_reset_session(agg)
    /\ last' = [op |-> "reset_session", frames |-> last.frames,
                closed |-> FALSE, pre |-> None]
    /\ UNCHANGED <<hume_client, advice_cache, active_connections, tasks, sm, buf,
                   now, emitted>>

FirstNext ==
    \/ FirstVideoFrame
    \/ AggResetSession

SpecFirst == AggInit /\ [][FirstNext]_vars

\* C36: the first interval closed after construction or after reset_session
\* has the trend "stable" for every top category, and its emotion_shift and
\* state_transition flags are false.
C36_FirstIntervalStable ==
    (last.closed /\ agg.interval_count = 1) =>
        LET first == emitted[Len(emitted)]
        IN  /\ first.top_emotions # <<>>
            /\ \A i \in 1..Len(first.top_emotions) :
                   first.top_emotions[i].trend = "stable"
            /\ ~first.flags.emotion_shift
            /\ ~first.flags.state_transition

\* C36: an interval is the first one after a reset, and the interval closed
\* before the reset had another state and other top categories
C36_Witness ==
    /\ last.closed
    /\ agg.interval_count = 1
    /\ Len(emitted) >= 2
    /\ emitted[Len(emitted) - 1].investor_state
           # emitted[Len(emitted)].investor_state
    /\ emitted[Len(emitted) - 1].top_emotions[1].name
           # emitted[Len(emitted)].top_emotions[1].name


\* ------------------------------------------- engagement trend of the pipeline
\* The context built from a buffer whose intervals carry the states the
\* Category Mapper returns.

MaxEngAdds == 4

\* the states map_to_investor_state can return
EngStates == Range(StateOrder)

EngAddInterval ==
    \E state \in EngStates :
        /\ buf.total_intervals < MaxEngAdds
        /\ LET t == now + interval_duration
               st == /\ buf.intervals # <<>>
                     /\ buf.intervals[Len(buf.intervals)].investor_state # state
               iv == SyntheticInterval(now, t, state, CtxTop(state), FALSE, st,
                                       FALSE, <<>>)
               r == add_interval(buf, iv, t)
           IN  /\ now' = t
               /\ buf' = r.buf
               /\ last' = [op |-> "add_interval", ret |-> r.ret]
        /\ UNCHANGED <<hume_client, advice_cache, active_connections, tasks, agg,
                       sm, emitted>>

EngNext == EngAddInterval \/ CtxBuildContext

SpecEngagement == CtxInit /\ [][EngNext]_vars

\* the states of the first and of the second half of the context's intervals
FirstHalfStates ==
    {last.intervals[i].investor_state :
        i \in 1..(Len(last.intervals) \div 2)}

SecondHalfStates ==
    {last.intervals[i].investor_state :
        i \in (Len(last.intervals) \div 2 + 1)..Len(last.intervals)}

\* C37: a context whose first-half intervals are all "closed-off" and whose
\* second-half intervals are all "enthusiastic" has the engagement trend
\* "increasing", and the reverse order has "decreasing".
C37_EngagementTrendOfMapperStates ==
    (last.op = "build_context" /\ Len(last.intervals) >= 2) =>
        /\ (/\ FirstHalfStates = {"closed-off"}
            /\ SecondHalfStates = {"enthusiastic"})
               => last.context.patterns.engagement_trend = "increasing"
        /\ (/\ FirstHalfStates = {"enthusiastic"}
            /\ SecondHalfStates = {"closed-off"})
               => last.context.patterns.engagement_trend = "decreasing"


get_cache_key(parameters) ==
    LET emotion == parameters.emotion.label
        wpm == parameters.speech.wordsPerMinute
        filler_count == parameters.speech.fillerWords.total
        wpm_bucket == (wpm \div 20) * 20
        filler_bucket ==
            (IF filler_count \div 5 < 2 THEN filler_count \div 5 ELSE 2) * 5
    IN  [emotion |-> emotion, wpm_bucket |-> wpm_bucket,
         filler_bucket |-> filler_bucket]

\* the keys of the dictionary
CacheKeys(c) == {c.cache[i].key : i \in 1..Len(c.cache)}

\* self.cache[key], for a key of the dictionary
CacheEntry(c, key) ==
    c.cache[CHOOSE i \in 1..Len(c.cache) : c.cache[i].key = key]

\* del self.cache[key]
CacheDel(c, key) ==
    [c EXCEPT !.cache = SelectSeq(@, LAMBDA e : e.key # key)]

\* self.cache[key] = entry: an existing key keeps its place
CacheStore(c, key, entry) ==
    IF key \in CacheKeys(c)
    THEN [c EXCEPT !.cache = [i \in 1..Len(@) |->
                                 IF @[i].key = key THEN entry ELSE @[i]]]
    ELSE [c EXCEPT !.cache = Append(@, entry)]

\* mutant: an entry stored exactly ttl ago is still served
get_inclusive_ttl(c, parameters, time) ==
    IF ~c.enabled THEN [cache |-> c, ret |-> None]
    ELSE LET key == get_cache_key(parameters)
         IN  IF key \in CacheKeys(c)
             THEN LET entry == CacheEntry(c, key)
                  IN  IF time - entry.timestamp <= c.ttl
                      THEN [cache |-> c, ret |-> Some(entry.advice)]
                      ELSE [cache |-> CacheDel(c, key), ret |-> None]
             ELSE [cache |-> c, ret |-> None]

\* get at the clock value time: the cache after the call and the advice or
\* None
get(c, parameters, time) ==
    IF ~c.enabled THEN [cache |-> c, ret |-> None]
    ELSE LET key == get_cache_key(parameters)
         IN  IF key \in CacheKeys(c)
             THEN LET entry == CacheEntry(c, key)
                  IN  IF time - entry.timestamp < c.ttl
                      THEN [cache |-> c, ret |-> Some(entry.advice)]
                      ELSE [cache |-> CacheDel(c, key), ret |-> None]
             ELSE [cache |-> c, ret |-> None]

\* min(self.cache.keys(), key=timestamp): the first key, in insertion order,
\* among those with the smallest timestamp
OldestKey(c) ==
    LET i == CHOOSE j \in 1..Len(c.cache) :
                 /\ \A k \in 1..Len(c.cache) :
                        c.cache[j].timestamp <= c.cache[k].timestamp
                 /\ \A k \in 1..(j - 1) :
                        c.cache[k].timestamp > c.cache[j].timestamp
    IN  c.cache[i].key

\* mutant: a full cache evicts its most recently inserted entry
set_evicts_latest(c, parameters, advice, time) ==
    IF ~c.enabled THEN c
    ELSE LET key == get_cache_key(parameters)
             c1 == IF Len(c.cache) >= c.max_size
                   THEN CacheDel(c, c.cache[Len(c.cache)].key)
                   ELSE c
         IN  CacheStore(c1, key, [key |-> key, advice |-> advice,
                                  timestamp |-> time])

\* set at the clock value time
set(c, parameters, advice, time) ==
    IF ~c.enabled THEN c
    ELSE LET key == get_cache_key(parameters)
             c1 == IF Len(c.cache) >= c.max_size
                   THEN CacheDel(c, OldestKey(c))
                   ELSE c
         IN  CacheStore(c1, key, [key |-> key, advice |-> advice,
                                  timestamp |-> time])

clear(c) == [c EXCEPT !.cache = <<>>]

\* ======================================================================
\* SpecCache: get, set and clear on one AdviceCache, in any order, while
\* the clock advances.
\* ======================================================================

MaxCacheOps == 5
MaxCacheTicks == 3

\* the settings of the cache of this specification: two entries, kept for
\* two seconds
CacheMaxSize == 2
CacheTtl == 200

\* the time between two operations that do not read the same clock value
CacheStep == 100

CacheParameters ==
    {[emotion |-> [label |-> e],
      speech |-> [wordsPerMinute |-> w, fillerWords |-> [total |-> 0]]] :
        e \in {"happy", "nervous"}, w \in {100, 119, 120}}

CacheInit ==
    /\ agg = NewAggregator
    /\ sm = NewMapper
    /\ buf = NewBuffer
    /\ now = 1000
    /\ emitted = <<>>
    /\ active_connections = OneConnection
    /\ tasks = {}
    /\ hume_client = None
    /\ advice_cache = [NewAdviceCache EXCEPT !.ttl = CacheTtl,
                                             !.max_size = CacheMaxSize]
    /\ last = [op |-> "init", ops |-> 0, ticks |-> 0, key |-> None,
               ret |-> None, pre |-> None]

CacheTick ==
    /\ last.ticks < MaxCacheTicks
    /\ now' = now + CacheStep
    /\ last' = [op |-> "tick", ops |-> last.ops, ticks |-> last.ticks + 1,
                key |-> None, ret |-> None, pre |-> None]
    /\ UNCHANGED <<hume_client, advice_cache, active_connections, tasks, agg,
                   sm, buf, emitted>>

CacheGet ==
    /\ last.ops < MaxCacheOps
    /\ \E parameters \in CacheParameters :
          \E r \in {get(advice_cache, parameters, now)} :
              /\ advice_cache' = r.cache
              /\ last' = [op |-> "get", ops |-> last.ops + 1,
                          ticks |-> last.ticks,
                          key |-> Some(get_cache_key(parameters)),
                          ret |-> r.ret, pre |-> Some(advice_cache)]
    /\ UNCHANGED <<hume_client, active_connections, tasks, agg, sm, buf, now,
                   emitted>>

\* the advice stored by the n-th operation is n
CacheSet ==
    /\ last.ops < MaxCacheOps
    /\ \E parameters \in CacheParameters :
          /\ advice_cache' = set(advice_cache, parameters, last.ops + 1, now)
          /\ last' = [op |-> "set", ops |-> last.ops + 1,
                      ticks |-> last.ticks,
                      key |-> Some(get_cache_key(parameters)),
                      ret |-> None, pre |-> Some(advice_cache)]
    /\ UNCHANGED <<hume_client, active_connections, tasks, agg, sm, buf, now,
                   emitted>>

CacheClear ==
    /\ last.ops < MaxCacheOps
    /\ advice_cache.cache # <<>>
    /\ advice_cache' = clear(advice_cache)
    /\ last' = [op |-> "clear", ops |-> last.ops + 1, ticks |-> last.ticks,
                key |-> None, ret |-> None, pre |-> Some(advice_cache)]
    /\ UNCHANGED <<hume_client, active_connections, tasks, agg, sm, buf, now,
                   emitted>>

CacheNext == CacheTick \/ CacheGet \/ CacheSet \/ CacheClear

SpecCache == CacheInit /\ [][CacheNext]_vars


\* C39: the cache never holds more than max_size entries, and a set on a
\* cache that holds max_size entries evicts exactly one entry, one with the
\* oldest store time, and then stores the new advice under its key.
C39_BoundedWithOldestEviction ==
    /\ Len(advice_cache.cache) <= advice_cache.max_size
    /\ Cardinality(CacheKeys(advice_cache)) = Len(advice_cache.cache)
    /\ (last.op = "set" /\ Len(Val(last.pre).cache) >= advice_cache.max_size)
           => LET old == Range(Val(last.pre).cache)
                  new == Range(advice_cache.cache)
                  stored == [key |-> Val(last.key), advice |-> last.ops,
                             timestamp |-> now]
              IN  /\ stored \in new
                  /\ \E e \in old :
                         /\ \A x \in old : e.timestamp <= x.timestamp
                         /\ new \ {stored} =
                                {x \in old : x # e /\ x.key # stored.key}

\* C39: a set under a new key on a full cache whose entries were stored at
\* different times has evicted the oldest one
C39_Witness ==
    /\ last.op = "set"
    /\ Len(Val(last.pre).cache) = advice_cache.max_size
    /\ Val(last.key) \notin CacheKeys(Val(last.pre))
    /\ \A i, j \in 1..Len(Val(last.pre).cache) :
           i # j => Val(last.pre).cache[i].timestamp
                        # Val(last.pre).cache[j].timestamp
    /\ OldestKey(Val(last.pre)) \notin CacheKeys(advice_cache)
    /\ Len(advice_cache.cache) = advice_cache.max_size

\* C40: get returns an advice only when it is the one stored under the key
\* less than ttl before the call; a get that finds an entry stored ttl or
\* more before removes it and returns a miss; a get for a key without an
\* entry misses; and only set puts a key into the cache or changes an entry.
C40_NeverServesStale ==
    /\ last.op = "get" =>
           LET pre == Val(last.pre)
               key == Val(last.key)
           IN  /\ ~IsNone(last.ret) =>
                      /\ key \in CacheKeys(pre)
                      /\ now - CacheEntry(pre, key).timestamp < pre.ttl
                      /\ Val(last.ret) = CacheEntry(pre, key).advice
               /\ (/\ key \in CacheKeys(pre)
                   /\ now - CacheEntry(pre, key).timestamp >= pre.ttl)
                      => /\ IsNone(last.ret)
                         /\ key \notin CacheKeys(advice_cache)
               /\ key \notin CacheKeys(pre) => IsNone(last.ret)
    /\ last.op \in {"get", "clear"} =>
           Range(advice_cache.cache) \subseteq Range(Val(last.pre).cache)

\* C40: a get finds an entry stored exactly ttl before and removes it
C40_Witness ==
    /\ last.op = "get"
    /\ Val(last.key) \in CacheKeys(Val(last.pre))
    /\ now - CacheEntry(Val(last.pre), Val(last.key)).timestamp
           = advice_cache.ttl
    /\ IsNone(last.ret)
    /\ Val(last.key) \notin CacheKeys(advice_cache)

====
